---- MODULE Spec2Model ----
(***************************************************************************)
(* Expression simplification and range extraction of KipSQL                *)
(* (src/src/expression/simplify.rs, src/src/expression/evaluator.rs).      *)
(*                                                                         *)
(* SpecRange drives the ConstantBinary normalizers (scope_aggregation,     *)
(* rearrange) over bounded lists of ranges.                                *)
(***************************************************************************)
EXTENDS Integers, Sequences, FiniteSets, TLC

VARIABLES
    pc,        \* position of the driver: which operation has run last
    binaries,  \* the Vec<ConstantBinary> the caller wraps in And(..) or Or(..)
    range,     \* the ConstantBinary as the last operation left it
    iter,      \* the order in which eq_set's iterator handed out its values
    result,    \* what the last operation returned
    source,    \* the ScalarExpression as the binder built it
    scalar,    \* the ScalarExpression as the last operation left it
    prev,      \* the ScalarExpression before the second simplify()
    applied,   \* how many replacements the last simplify() applied
    target     \* the col_id convert_binary is called with

vars == <<pc, binaries, range, iter, result, source, scalar, prev, applied, target>>
tree == <<source, scalar, prev, applied, target>>

(***************************************************************************)
(* Bounds of the model.                                                    *)
(***************************************************************************)
MaxVal == 1      \* Int32 values of ranges are 0..MaxVal
MaxLen == 3      \* longest Vec<ConstantBinary> handed to a normalizer
MaxArms == 2     \* most And/Or nodes nested inside that Vec
MaxArmLeaves == 2 \* most leaves in a Vec that holds nested And/Or nodes

(***************************************************************************)
(* DataValue (types/value.rs is not part of the sources at hand; the spec  *)
(* fixes what is needed: is_null and a partial order that yields None      *)
(* whenever a NULL takes part).                                            *)
(***************************************************************************)
Null == [ty |-> "Null", null |-> TRUE, v |-> 0]
Int32(n) == [ty |-> "Int32", null |-> FALSE, v |-> n]
Boolean(b) == [ty |-> "Boolean", null |-> FALSE, v |-> IF b THEN 1 ELSE 0]
BooleanNone == [ty |-> "Boolean", null |-> TRUE, v |-> 0]

is_null(val) == val.null

\* Ordering is "Less" | "Equal" | "Greater"; Option<Ordering> adds "None".
reverse(order) ==
    IF order = "Less" THEN "Greater"
    ELSE IF order = "Greater" THEN "Less"
    ELSE order

then(order, other) == IF order = "Equal" THEN other ELSE order

unwrap_or_equal(order) == IF order = "None" THEN "Equal" ELSE order

partial_cmp(left, right) ==
    IF is_null(left) \/ is_null(right) \/ left.ty # right.ty THEN "None"
    ELSE IF left.v < right.v THEN "Less"
    ELSE IF left.v > right.v THEN "Greater"
    ELSE "Equal"

(***************************************************************************)
(* ConstantBinary and std::collections::Bound.                             *)
(***************************************************************************)
Unbounded == [b |-> "Unbounded"]
Included(val) == [b |-> "Included", val |-> val]
Excluded(val) == [b |-> "Excluded", val |-> val]

Scope(min, max) == [kind |-> "Scope", min |-> min, max |-> max]
Eq(val) == [kind |-> "Eq", val |-> val]
NotEq(val) == [kind |-> "NotEq", val |-> val]
And(bs) == [kind |-> "And", binaries |-> bs]
Or(bs) == [kind |-> "Or", binaries |-> bs]

Ok(val) == [tag |-> "Ok", val |-> val]
Err == [tag |-> "Err", val |-> "InvalidType"]
Panic == [tag |-> "Panic", val |-> "unreachable"]

IsLeaf(binary) == binary.kind \in {"Scope", "Eq", "NotEq"}

bound_compared_unreversed(left_bound, right_bound, is_min) ==
    LET op(order) == order
        map_then(order, other) == IF order = "None" THEN "None" ELSE then(order, other)
    IN  IF left_bound.b = "Unbounded" /\ right_bound.b = "Unbounded" THEN "Equal"
        ELSE IF left_bound.b = "Unbounded" THEN op("Less")
        ELSE IF right_bound.b = "Unbounded" THEN op("Greater")
        ELSE IF left_bound.b = "Included" /\ right_bound.b = "Excluded"
            THEN map_then(partial_cmp(left_bound.val, right_bound.val), op("Less"))
        ELSE IF left_bound.b = "Excluded" /\ right_bound.b = "Included"
            THEN map_then(partial_cmp(left_bound.val, right_bound.val), op("Greater"))
        ELSE partial_cmp(left_bound.val, right_bound.val)

bound_compared(left_bound, right_bound, is_min) ==
    LET op(order) == IF is_min THEN order ELSE reverse(order)
        map_then(order, other) == IF order = "None" THEN "None" ELSE then(order, other)
    IN  IF left_bound.b = "Unbounded" /\ right_bound.b = "Unbounded" THEN "Equal"
        ELSE IF left_bound.b = "Unbounded" THEN op("Less")
        ELSE IF right_bound.b = "Unbounded" THEN op("Greater")
        ELSE IF left_bound.b = "Included" /\ right_bound.b = "Excluded"
            THEN map_then(partial_cmp(left_bound.val, right_bound.val), op("Less"))
        ELSE IF left_bound.b = "Excluded" /\ right_bound.b = "Included"
            THEN map_then(partial_cmp(left_bound.val, right_bound.val), op("Greater"))
        ELSE partial_cmp(left_bound.val, right_bound.val)

(***************************************************************************)
(* slice::sort_by on short slices is a stable insertion sort: each element *)
(* moves left while the comparator says it is Less than its neighbour.     *)
(***************************************************************************)
Front(s) == SubSeq(s, 1, Len(s) - 1)
Last(s) == s[Len(s)]

\* rearrange's sort key: the lower bound of an element.
sort_op(binary) ==
    IF binary.kind = "Scope" THEN binary.min
    ELSE IF binary.kind = "Eq" THEN Included(binary.val)
    ELSE Excluded(binary.val)

sort_cmp(a, b) == unwrap_or_equal(bound_compared(sort_op(a), sort_op(b), TRUE))

RECURSIVE insert_by_min(_, _)
insert_by_min(s, x) ==
    IF s = <<>> THEN <<x>>
    ELSE IF sort_cmp(x, Last(s)) = "Less"
        THEN Append(insert_by_min(Front(s), x), Last(s))
        ELSE Append(s, x)

\* a rearrange that forgets to sort
sort_by_min_skipped(s) == s

RECURSIVE sort_by_min(_)
sort_by_min(s) ==
    IF s = <<>> THEN <<>> ELSE insert_by_min(sort_by_min(Front(s)), Last(s))

\* rearrange's flattening loop over the arms of an Or.
RECURSIVE flatten(_)
flatten(bs) ==
    IF bs = <<>> THEN <<>>
    ELSE LET binary == bs[1]
             rest == flatten(Tail(bs))
         IN  IF binary.kind = "And" THEN binary.binaries \o rest
             ELSE IF binary.kind = "Scope" /\ binary.min = Unbounded /\ binary.max = Unbounded
                 THEN rest
             ELSE <<binary>> \o rest

\* the (min, max) pair the merge loop reads off a candidate.
merge_op(binary) ==
    IF binary.kind = "Scope" THEN <<binary.min, binary.max>>
    ELSE IF binary.kind = "Eq" THEN <<Unbounded, Included(binary.val)>>
    ELSE <<Unbounded, Excluded(binary.val)>>

\* index of the most recent Scope of merged_binaries, 0 when there is none.
RECURSIVE last_scope(_)
last_scope(merged) ==
    IF merged = <<>> THEN 0
    ELSE IF Last(merged).kind = "Scope" THEN Len(merged)
    ELSE last_scope(Front(merged))

\* one turn of rearrange's merge loop.
merge_step(merged, condition) ==
    LET j == last_scope(merged)
    IN  IF j = 0
        THEN IF merged = <<>> THEN <<condition>> ELSE merged
        ELSE LET max == merged[j].max
                 c == merge_op(condition)
                 is_lt_min == unwrap_or_equal(bound_compared(max, c[1], FALSE)) = "Less"
                 is_lt_max == unwrap_or_equal(bound_compared(max, c[2], FALSE)) = "Less"
             IN  IF ~is_lt_min /\ is_lt_max
                 THEN [merged EXCEPT ![j].max = c[2]]
                 ELSE IF condition.kind # "Scope"
                     THEN IF is_lt_max THEN Append(merged, condition) ELSE merged
                 ELSE IF is_lt_min /\ is_lt_max
                     THEN Append(merged, condition)
                 ELSE merged

RECURSIVE merge(_, _)
merge(merged, conditions) ==
    IF conditions = <<>> THEN merged
    ELSE merge(merge_step(merged, conditions[1]), Tail(conditions))

rearrange(self) ==
    IF self.kind = "Or"
    THEN IF \E i \in 1..Len(self.binaries) : self.binaries[i].kind = "Or"
         THEN Err
         ELSE LET condition_binaries == flatten(self.binaries)
              IN  IF Len(condition_binaries) >= 2
                     /\ \E i \in 1..Len(condition_binaries) : ~IsLeaf(condition_binaries[i])
                  THEN Panic
                  ELSE Ok(merge(<<>>, sort_by_min(condition_binaries)))
    ELSE IF self.kind = "And" THEN Ok(self.binaries)
    ELSE Ok(<<self>>)

(***************************************************************************)
(* _scope_aggregation: the AND narrowing of a Vec<ConstantBinary>.         *)
(***************************************************************************)
\* the key of itertools' sorted_by_key (a stable sort).
sort_key(binary) ==
    IF binary.kind = "Scope" THEN 3
    ELSE IF binary.kind = "NotEq" THEN 2
    ELSE IF binary.kind = "Eq" THEN 1
    ELSE 0

RECURSIVE insert_by_key(_, _)
insert_by_key(s, x) ==
    IF s = <<>> THEN <<x>>
    ELSE IF sort_key(x) < sort_key(Last(s))
        THEN Append(insert_by_key(Front(s), x), Last(s))
        ELSE Append(s, x)

\* an aggregation that walks the Vec in the order given
sorted_by_key_skipped(s) == s

RECURSIVE sorted_by_key(_)
sorted_by_key(s) ==
    IF s = <<>> THEN <<>> ELSE insert_by_key(sorted_by_key(Front(s)), Last(s))

\* an aggregation loop that compares upper bounds as if they were lower bounds
aggregate_step_min_only(acc, binary) ==
    IF acc.err THEN acc
    ELSE IF binary.kind = "Scope"
    THEN IF acc.eq_set # {} THEN acc
         ELSE [acc EXCEPT
                 !.scope_min = IF bound_compared(acc.scope_min, binary.min, TRUE) = "Less"
                               THEN binary.min ELSE @,
                 !.scope_max = IF bound_compared(acc.scope_max, binary.max, TRUE) = "Greater"
                               THEN binary.max ELSE @]
    ELSE IF binary.kind = "Eq" THEN [acc EXCEPT !.eq_set = @ \cup {binary.val}]
    ELSE IF binary.kind = "NotEq" THEN [acc EXCEPT !.eq_set = @ \ {binary.val}]
    ELSE [acc EXCEPT !.err = TRUE]

\* an aggregation loop that takes the bounds of the Scope it met last
aggregate_step_last_wins(acc, binary) ==
    IF acc.err THEN acc
    ELSE IF binary.kind = "Scope"
    THEN IF acc.eq_set # {} THEN acc
         ELSE [acc EXCEPT !.scope_min = binary.min, !.scope_max = binary.max]
    ELSE IF binary.kind = "Eq" THEN [acc EXCEPT !.eq_set = @ \cup {binary.val}]
    ELSE IF binary.kind = "NotEq" THEN [acc EXCEPT !.eq_set = @ \ {binary.val}]
    ELSE [acc EXCEPT !.err = TRUE]

\* the body of the aggregation loop for one element; acc is
\* [scope_min, scope_max, eq_set, err].
aggregate_step(acc, binary) ==
    IF acc.err THEN acc
    ELSE IF binary.kind = "Scope"
    THEN IF acc.eq_set # {} THEN acc
         ELSE [acc EXCEPT
                 !.scope_min = IF bound_compared(acc.scope_min, binary.min, TRUE) = "Less"
                               THEN binary.min ELSE @,
                 !.scope_max = IF bound_compared(acc.scope_max, binary.max, FALSE) = "Greater"
                               THEN binary.max ELSE @]
    ELSE IF binary.kind = "Eq" THEN [acc EXCEPT !.eq_set = @ \cup {binary.val}]
    ELSE IF binary.kind = "NotEq" THEN [acc EXCEPT !.eq_set = @ \ {binary.val}]
    ELSE [acc EXCEPT !.err = TRUE]

RECURSIVE aggregate_loop(_, _)
aggregate_loop(acc, bs) ==
    IF bs = <<>> THEN acc
    ELSE aggregate_loop(aggregate_step(acc, bs[1]), Tail(bs))

aggregate(bs) ==
    aggregate_loop([scope_min |-> Unbounded, scope_max |-> Unbounded,
                    eq_set |-> {}, err |-> FALSE],
                   sorted_by_key(bs))

\* the values eq_set holds when the loop ends: what its iterator walks over.
eq_set_of(bs) == aggregate(bs).eq_set

\* sorted_by(|a, b| a.partial_cmp(b).unwrap_or(Ordering::Equal)) over the
\* values in the order the HashSet handed them out.
RECURSIVE insert_by_val(_, _)
insert_by_val(s, x) ==
    IF s = <<>> THEN <<x>>
    ELSE IF unwrap_or_equal(partial_cmp(x, Last(s))) = "Less"
        THEN Append(insert_by_val(Front(s), x), Last(s))
        ELSE Append(s, x)

\* an aggregation that emits eq_set in iteration order
sorted_by_val_skipped(s) == s

RECURSIVE sorted_by_val(_)
sorted_by_val(s) ==
    IF s = <<>> THEN <<>> ELSE insert_by_val(sorted_by_val(Front(s)), Last(s))

_scope_aggregation_cleared(bs, into_iter) ==
    LET acc == aggregate(bs)
        vals == sorted_by_val(into_iter)
        eq_binaries == [i \in 1..Len(vals) |-> Eq(vals[i])]
    IN  IF acc.err THEN [res |-> Err, binaries |-> <<>>]
        ELSE IF eq_binaries # <<>> THEN [res |-> Ok(<<>>), binaries |-> eq_binaries]
        ELSE IF ~(acc.scope_min = Unbounded /\ acc.scope_max = Unbounded)
            THEN [res |-> Ok(<<>>), binaries |-> <<Scope(acc.scope_min, acc.scope_max)>>]
        ELSE [res |-> Ok(<<>>), binaries |-> <<>>]

\* Returns [res, binaries]: Ok(()) or Err, and the Vec as the call leaves it.
\* into_iter is the order in which eq_set's iterator yields its values.
_scope_aggregation(bs, into_iter) ==
    LET acc == aggregate(bs)
        vals == sorted_by_val(into_iter)
        eq_binaries == [i \in 1..Len(vals) |-> Eq(vals[i])]
    IN  IF acc.err THEN [res |-> Err, binaries |-> bs]
        ELSE IF eq_binaries # <<>> THEN [res |-> Ok(<<>>), binaries |-> eq_binaries]
        ELSE IF ~(acc.scope_min = Unbounded /\ acc.scope_max = Unbounded)
            THEN [res |-> Ok(<<>>), binaries |-> <<Scope(acc.scope_min, acc.scope_max)>>]
        ELSE [res |-> Ok(<<>>), binaries |-> <<>>]

\* the sequences that enumerate a set once each: the orders a HashSet with a
\* random hasher can iterate in.
Orders(S) ==
    {f \in [1..Cardinality(S) -> S] : \A i, j \in 1..Cardinality(S) : i # j => f[i] # f[j]}

\* the order in which a HashSet holding the values S iterates, given the
\* order its hasher induces on all values.
into_iter(order, S) == SelectSeq(order, LAMBDA val : val \in S)

\* ConstantBinary::scope_aggregation; returns [res, self].
RECURSIVE scope_aggregation(_, _)
RECURSIVE aggregate_arms(_, _, _)
aggregate_arms(bs, i, order) ==
    IF i > Len(bs) THEN [res |-> Ok(<<>>), binaries |-> bs]
    ELSE LET r == scope_aggregation(bs[i], order)
             next == [bs EXCEPT ![i] = r.self]
         IN  IF r.res.tag # "Ok" THEN [res |-> r.res, binaries |-> next]
             ELSE aggregate_arms(next, i + 1, order)

scope_aggregation(this, order) ==
    IF this.kind = "And"
    THEN LET r == _scope_aggregation(this.binaries,
                                     into_iter(order, eq_set_of(this.binaries)))
         IN  [res |-> r.res, self |-> And(r.binaries)]
    ELSE IF this.kind = "Or"
    THEN LET r == aggregate_arms(this.binaries, 1, order)
         IN  [res |-> r.res, self |-> Or(r.binaries)]
    ELSE [res |-> Ok(<<>>), self |-> this]

(***************************************************************************)
(* ScalarExpression, and the value operators it is evaluated with          *)
(* (expression/value_compute.rs is not part of the sources at hand; the    *)
(* spec fixes value (+) value -> value | TypeError with three-valued       *)
(* logic).                                                                 *)
(***************************************************************************)
None == [some |-> FALSE]
Some(x) == [some |-> TRUE, val |-> x]

Int32None == [ty |-> "Int32", null |-> TRUE, v |-> 0]

Constant(value) == [kind |-> "Constant", value |-> value]
\* ColumnCatalog: id is an Option<ColumnId>
Column(id, name) == [id |-> id, name |-> name]
ColumnRef(col) == [kind |-> "ColumnRef", col |-> col]
Alias(expr) == [kind |-> "Alias", expr |-> expr, alias |-> "alias"]
TypeCast(expr, ty) == [kind |-> "TypeCast", expr |-> expr, ty |-> ty]
IsNull(expr, negated) == [kind |-> "IsNull", expr |-> expr, negated |-> negated]
Unary(op, expr, ty) == [kind |-> "Unary", op |-> op, expr |-> expr, ty |-> ty]
Binary(op, left_expr, right_expr, ty) ==
    [kind |-> "Binary", op |-> op, left_expr |-> left_expr,
     right_expr |-> right_expr, ty |-> ty]

ArithmeticOps == {"Plus", "Minus", "Multiply", "Divide"}
ComparisonOps == {"Gt", "Lt", "GtEq", "LtEq", "Eq", "NotEq"}
LogicalOps == {"And", "Or"}

\* i32 division: the quotient truncated towards zero
TruncDiv(a, b) ==
    LET abs(x) == IF x < 0 THEN 0 - x ELSE x
        q == abs(a) \div abs(b)
    IN  IF (a < 0) = (b < 0) THEN q ELSE 0 - q

\* three-valued truth of a DataValue::Boolean / NULL: "T", "F" or "N"
Truth(val) == IF val.null THEN "N" ELSE IF val.v = 1 THEN "T" ELSE "F"
OfTruth(t) == IF t = "N" THEN BooleanNone ELSE Boolean(t = "T")

binary_op(left, right, op) ==
    IF op \in ArithmeticOps
    THEN IF left.ty = "Null" \/ right.ty = "Null" THEN Ok(Null)
         ELSE IF left.ty # "Int32" \/ right.ty # "Int32" THEN Err
         ELSE IF left.null \/ right.null THEN Ok(Int32None)
         ELSE IF op = "Plus" THEN Ok(Int32(left.v + right.v))
         ELSE IF op = "Minus" THEN Ok(Int32(left.v - right.v))
         ELSE IF op = "Multiply" THEN Ok(Int32(left.v * right.v))
         ELSE IF right.v = 0 THEN Err
         ELSE Ok(Int32(TruncDiv(left.v, right.v)))
    ELSE IF op \in ComparisonOps
    THEN IF left.ty = "Null" \/ right.ty = "Null" THEN Ok(BooleanNone)
         ELSE IF left.ty # right.ty THEN Err
         ELSE IF left.null \/ right.null THEN Ok(BooleanNone)
         ELSE IF op = "Gt" THEN Ok(Boolean(left.v > right.v))
         ELSE IF op = "Lt" THEN Ok(Boolean(left.v < right.v))
         ELSE IF op = "GtEq" THEN Ok(Boolean(left.v >= right.v))
         ELSE IF op = "LtEq" THEN Ok(Boolean(left.v <= right.v))
         ELSE IF op = "Eq" THEN Ok(Boolean(left.v = right.v))
         ELSE Ok(Boolean(left.v # right.v))
    ELSE IF op = "Spaceship"
    THEN IF left.null \/ right.null THEN Ok(Boolean(left.null /\ right.null))
         ELSE IF left.ty # right.ty THEN Err
         ELSE Ok(Boolean(left.v = right.v))
    ELSE IF left.ty \notin {"Boolean", "Null"} \/ right.ty \notin {"Boolean", "Null"}
    THEN Err
    ELSE LET l == Truth(left)
             r == Truth(right)
         IN  IF op = "And"
             THEN Ok(OfTruth(IF l = "F" \/ r = "F" THEN "F"
                             ELSE IF l = "N" \/ r = "N" THEN "N" ELSE "T"))
             ELSE IF op = "Or"
             THEN Ok(OfTruth(IF l = "T" \/ r = "T" THEN "T"
                             ELSE IF l = "N" \/ r = "N" THEN "N" ELSE "F"))
             ELSE Ok(OfTruth(IF l = "N" \/ r = "N" THEN "N"
                             ELSE IF l # r THEN "T" ELSE "F"))

unary_op(value, op) ==
    IF op = "Plus"
    THEN IF value.ty \in {"Int32", "Null"} THEN Ok(value) ELSE Err
    ELSE IF op = "Minus"
    THEN IF value.ty = "Null" THEN Ok(Null)
         ELSE IF value.ty # "Int32" THEN Err
         ELSE IF value.null THEN Ok(value)
         ELSE Ok(Int32(0 - value.v))
    ELSE IF value.ty = "Null" THEN Ok(Null)
         ELSE IF value.ty # "Boolean" THEN Err
         ELSE IF value.null THEN Ok(value)
         ELSE Ok(Boolean(value.v = 0))

\* DataValue::cast to a LogicalType ("Integer" | "Boolean")
cast(value, ty) ==
    IF value.ty = "Null" THEN Ok(value)
    ELSE IF ty = "Integer"
    THEN Ok([value EXCEPT !.ty = "Int32"])
    ELSE Ok([value EXCEPT !.ty = "Boolean", !.v = IF value.v = 0 THEN 0 ELSE 1])

\* the value a tuple holds under a column name; a tuple maps names to values
eval_with_name(tuple, name) ==
    IF name \in DOMAIN tuple THEN Some(tuple[name]) ELSE None

\* the name of the expression's output column: a column's own name, an
\* alias, and otherwise the rendered expression, which names no stored column
output_name(expr) ==
    IF expr.kind = "ColumnRef" THEN expr.col.name
    ELSE IF expr.kind = "Alias" THEN expr.alias
    ELSE "expr"

RECURSIVE eval_column(_, _)
eval_column(expr, tuple) ==
    IF eval_with_name(tuple, output_name(expr)).some
    THEN Ok(eval_with_name(tuple, output_name(expr)).val)
    ELSE IF expr.kind = "Constant" THEN Ok(expr.value)
    ELSE IF expr.kind = "ColumnRef"
    THEN LET value == eval_with_name(tuple, expr.col.name)
         IN  IF value.some THEN Ok(value.val) ELSE Ok(Null)
    ELSE IF expr.kind = "Alias"
    THEN LET value == eval_with_name(tuple, expr.alias)
         IN  IF value.some THEN Ok(value.val) ELSE eval_column(expr.expr, tuple)
    ELSE IF expr.kind = "TypeCast"
    THEN LET value == eval_column(expr.expr, tuple)
         IN  IF value.tag # "Ok" THEN value ELSE cast(value.val, expr.ty)
    ELSE IF expr.kind = "Binary"
    THEN LET left == eval_column(expr.left_expr, tuple)
         IN  IF left.tag # "Ok" THEN left
             ELSE LET right == eval_column(expr.right_expr, tuple)
                  IN  IF right.tag # "Ok" THEN right
                      ELSE binary_op(left.val, right.val, expr.op)
    ELSE IF expr.kind = "IsNull"
    THEN LET value == eval_column(expr.expr, tuple)
         IN  IF value.tag # "Ok" THEN value
             ELSE Ok(Boolean(is_null(value.val) # expr.negated))
    ELSE IF expr.kind = "Unary"
    THEN LET value == eval_column(expr.expr, tuple)
         IN  IF value.tag # "Ok" THEN value ELSE unary_op(value.val, expr.op)
    ELSE Ok(Null)

(***************************************************************************)
(* The folder: unpack_val rewrites the tree while it folds, so it returns  *)
(* [val, expr]: the Option<ValueRef> and the node as the call leaves it.   *)
(***************************************************************************)
RECURSIVE unpack_val(_)
unpack_val(this) ==
    IF this.kind = "Constant" THEN [val |-> Some(this.value), expr |-> this]
    ELSE IF this.kind = "Alias"
    THEN LET r == unpack_val(this.expr)
         IN  [val |-> r.val, expr |-> [this EXCEPT !.expr = r.expr]]
    ELSE IF this.kind = "TypeCast"
    THEN LET r == unpack_val(this.expr)
             c == IF r.val.some THEN cast(r.val.val, this.ty) ELSE Err
         IN  [val |-> IF c.tag = "Ok" THEN Some(c.val) ELSE None,
              expr |-> [this EXCEPT !.expr = r.expr]]
    ELSE IF this.kind = "IsNull"
    THEN LET r == unpack_val(this.expr)
         IN  [val |-> Some(IF r.val.some THEN Boolean(is_null(r.val.val))
                           ELSE BooleanNone),
              expr |-> [this EXCEPT !.expr = r.expr]]
    ELSE IF this.kind = "Unary"
    THEN LET r == unpack_val(this.expr)
             u == IF r.val.some THEN unary_op(r.val.val, this.op) ELSE Err
         IN  [val |-> IF u.tag = "Ok" THEN Some(u.val) ELSE None,
              expr |-> [this EXCEPT !.expr = r.expr]]
    ELSE IF this.kind = "Binary"
    THEN LET l == unpack_val(this.left_expr)
         IN  IF ~l.val.some
             THEN [val |-> None, expr |-> [this EXCEPT !.left_expr = l.expr]]
             ELSE LET r == unpack_val(this.right_expr)
                      kept == [this EXCEPT !.left_expr = l.expr,
                                           !.right_expr = r.expr]
                  IN  IF ~r.val.some THEN [val |-> None, expr |-> kept]
                      ELSE LET b == binary_op(l.val.val, r.val.val, this.op)
                           IN  IF b.tag = "Ok"
                               THEN [val |-> Some(b.val), expr |-> Constant(b.val)]
                               ELSE [val |-> None, expr |-> kept]
    ELSE [val |-> None, expr |-> this]

RECURSIVE unpack_col(_, _)
unpack_col(this, is_binary_then_return) ==
    IF this.kind = "ColumnRef" THEN Some(this.col)
    ELSE IF this.kind = "Alias" THEN unpack_col(this.expr, is_binary_then_return)
    ELSE IF this.kind = "Binary"
    THEN IF is_binary_then_return THEN None
         ELSE LET l == unpack_col(this.left_expr, is_binary_then_return)
                  r == unpack_col(this.right_expr, is_binary_then_return)
              IN  IF l.some /\ ~r.some THEN l
                  ELSE IF ~l.some /\ r.some THEN r
                  ELSE None
    ELSE IF this.kind = "Unary" THEN unpack_col(this.expr, is_binary_then_return)
    ELSE None

(***************************************************************************)
(* The simplifier.  A Replace is what a child publishes for the Binary     *)
(* node above it to absorb.                                                *)
(***************************************************************************)
ReplaceBinary(column_expr, val_expr, op, ty, is_column_left) ==
    [kind |-> "Binary", column_expr |-> column_expr, val_expr |-> val_expr,
     op |-> op, ty |-> ty, is_column_left |-> is_column_left]
ReplaceUnary(child_expr, op, ty) ==
    [kind |-> "Unary", child_expr |-> child_expr, op |-> op, ty |-> ty]

\* fix_binary's op_flip and comparison_flip
op_flip(op) ==
    IF op = "Plus" THEN "Minus"
    ELSE IF op = "Minus" THEN "Plus"
    ELSE IF op = "Multiply" THEN "Divide"
    ELSE "Multiply"

comparison_flip(op) ==
    IF op = "Gt" THEN "Lt"
    ELSE IF op = "GtEq" THEN "LtEq"
    ELSE IF op = "Lt" THEN "Gt"
    ELSE IF op = "LtEq" THEN "GtEq"
    ELSE op

fix_unary_unflipped(replace_unary, col_expr, val_expr, op) ==
    [left_expr |-> replace_unary.child_expr,
     right_expr |-> Unary(replace_unary.op, val_expr, replace_unary.ty),
     op |-> op]

fix_unary_plus_left(replace_unary, col_expr, val_expr, op) ==
    [left_expr |-> IF replace_unary.op = "Plus" THEN replace_unary.child_expr
                   ELSE Unary("Plus", replace_unary.child_expr, replace_unary.ty),
     right_expr |-> Unary(replace_unary.op, val_expr, replace_unary.ty),
     op |-> IF replace_unary.op = "Plus" THEN op
            ELSE IF replace_unary.op = "Minus"
            THEN IF op \in ArithmeticOps THEN op_flip(op) ELSE comparison_flip(op)
            ELSE comparison_flip(op)]

\* returns the node's [left_expr, right_expr, op] as fix_unary leaves them
fix_unary(replace_unary, col_expr, val_expr, op) ==
    [left_expr |-> replace_unary.child_expr,
     right_expr |-> Unary(replace_unary.op, val_expr, replace_unary.ty),
     op |-> IF replace_unary.op = "Plus" THEN op
            ELSE IF replace_unary.op = "Minus"
            THEN IF op \in ArithmeticOps THEN op_flip(op) ELSE comparison_flip(op)
            ELSE comparison_flip(op)]

fix_binary_unflipped(replace_binary, left_expr, right_expr, op) ==
    IF replace_binary.is_column_left
    THEN [left_expr |-> replace_binary.column_expr,
          right_expr |-> Binary(op_flip(replace_binary.op), right_expr,
                                replace_binary.val_expr, replace_binary.ty),
          op |-> op]
    ELSE [left_expr |-> replace_binary.column_expr,
          right_expr |-> Binary(replace_binary.op, replace_binary.val_expr,
                                right_expr, replace_binary.ty),
          op |-> op]

fix_binary_kept_left(replace_binary, left_expr, right_expr, op) ==
    IF replace_binary.is_column_left
    THEN [left_expr |-> left_expr,
          right_expr |-> Binary(op_flip(replace_binary.op), right_expr,
                                replace_binary.val_expr, replace_binary.ty),
          op |-> op]
    ELSE [left_expr |-> left_expr,
          right_expr |-> Binary(replace_binary.op, replace_binary.val_expr,
                                right_expr, replace_binary.ty),
          op |-> IF replace_binary.op \in {"Minus", "Multiply"}
                 THEN comparison_flip(op) ELSE op]

\* returns the node's [left_expr, right_expr, op] as fix_binary leaves them
fix_binary(replace_binary, left_expr, right_expr, op) ==
    IF replace_binary.is_column_left
    THEN [left_expr |-> replace_binary.column_expr,
          right_expr |-> Binary(op_flip(replace_binary.op), right_expr,
                                replace_binary.val_expr, replace_binary.ty),
          op |-> op]
    ELSE [left_expr |-> replace_binary.column_expr,
          right_expr |-> Binary(replace_binary.op, replace_binary.val_expr,
                                right_expr, replace_binary.ty),
          op |-> IF replace_binary.op \in {"Minus", "Multiply"}
                 THEN comparison_flip(op) ELSE op]

\* _simplify returns [res, expr, fix, fixes]; fix_expr returns
\* [res, fix, left_expr, right_expr, op, fixes].
RECURSIVE _simplify(_, _)
RECURSIVE fix_expr(_, _, _, _)

\* fixes counts the replacements taken and applied (the fix_unary and
\* fix_binary calls) while the call ran
counted(r, fixes) == [r EXCEPT !.fixes = @ + fixes]

\* fix_expr once left_expr._simplify(fix_option) has returned s
take_fix(s, right_expr, op) ==
    IF s.res.tag # "Ok"
    THEN [res |-> s.res, fix |-> s.fix, left_expr |-> s.expr,
          right_expr |-> right_expr, op |-> op, fixes |-> s.fixes]
    ELSE IF ~s.fix.some
    THEN [res |-> s.res, fix |-> None, left_expr |-> s.expr,
          right_expr |-> right_expr, op |-> op, fixes |-> s.fixes]
    ELSE IF s.fix.val.kind = "Binary"
    THEN LET f == fix_binary(s.fix.val, s.expr, right_expr, op)
         IN  [res |-> s.res, fix |-> None, left_expr |-> f.left_expr,
              right_expr |-> f.right_expr, op |-> f.op, fixes |-> s.fixes + 1]
    ELSE LET f == fix_unary(s.fix.val, s.expr, right_expr, op)
         IN  counted(fix_expr(None, f.left_expr, f.right_expr, f.op), s.fixes + 1)

fix_expr(fix_option, left_expr, right_expr, op) ==
    take_fix(_simplify(left_expr, fix_option), right_expr, op)

\* the Binary arm's match on (left_expr.unpack_col(true), right_expr.unpack_col(true))
publish(node, fix_option, l, r) ==
    IF node.op \notin ArithmeticOps THEN fix_option
    ELSE IF l.some /\ ~r.some
    THEN Some(ReplaceBinary(ColumnRef(l.val), node.right_expr, node.op, node.ty, TRUE))
    ELSE IF ~l.some /\ r.some
    THEN Some(ReplaceBinary(ColumnRef(r.val), node.left_expr, node.op, node.ty, FALSE))
    ELSE fix_option

\* the Binary arm once both fix_expr calls have returned; node is the Binary
\* as they left it
fixed_both(res, fix_option, node, fixes) ==
    [res |-> res, expr |-> node, fixes |-> fixes,
     fix |-> IF res.tag # "Ok" THEN fix_option
             ELSE publish(node, fix_option, unpack_col(node.left_expr, TRUE),
                          unpack_col(node.right_expr, TRUE))]

\* the Binary arm once fix_expr(fix_option, right_expr, left_expr, op) has
\* returned b: b.left_expr is the node's right_expr
fixed_right(b, ty, fixes) ==
    fixed_both(b.res, b.fix, Binary(b.op, b.right_expr, b.left_expr, ty),
               fixes + b.fixes)

\* the Binary arm once fix_expr(fix_option, left_expr, right_expr, op) has returned a
fixed_left(a, ty) ==
    IF a.res.tag # "Ok"
    THEN [res |-> a.res, fix |-> a.fix, fixes |-> a.fixes,
          expr |-> Binary(a.op, a.left_expr, a.right_expr, ty)]
    ELSE fixed_right(fix_expr(a.fix, a.right_expr, a.left_expr, a.op), ty, a.fixes)

\* the TypeCast, IsNull and Unary arms once expr.unpack_val() has returned r
fold_type_cast(this, fix_option, r) ==
    [res |-> Ok(<<>>), fix |-> fix_option, fixes |-> 0,
     expr |-> IF r.val.some THEN Constant(r.val.val)
              ELSE [this EXCEPT !.expr = r.expr]]

fold_is_null(this, fix_option, r) ==
    [res |-> Ok(<<>>), fix |-> fix_option, fixes |-> 0,
     expr |-> IF r.val.some THEN Constant(Boolean(is_null(r.val.val)))
              ELSE [this EXCEPT !.expr = r.expr]]

fold_unary_op(this, fix_option, r, u) ==
    IF u.tag = "Ok"
    THEN [res |-> Ok(<<>>), fix |-> fix_option, fixes |-> 0, expr |-> Constant(u.val)]
    ELSE [res |-> Err, fix |-> fix_option, fixes |-> 0,
          expr |-> [this EXCEPT !.expr = r.expr]]

fold_unary(this, fix_option, r) ==
    IF r.val.some
    THEN fold_unary_op(this, fix_option, r, unary_op(r.val.val, this.op))
    ELSE [res |-> Ok(<<>>), expr |-> [this EXCEPT !.expr = r.expr], fixes |-> 0,
          fix |-> Some(ReplaceUnary(r.expr, this.op, this.ty))]

\* the Alias arm once expr._simplify(fix_option) has returned r
simplified_alias(this, r) ==
    [res |-> r.res, fix |-> r.fix, fixes |-> r.fixes,
     expr |-> [this EXCEPT !.expr = r.expr]]

_simplify(this, fix_option) ==
    IF this.kind = "Binary"
    THEN fixed_left(fix_expr(fix_option, this.left_expr, this.right_expr, this.op),
                    this.ty)
    ELSE IF this.kind = "Alias"
    THEN simplified_alias(this, _simplify(this.expr, fix_option))
    ELSE IF this.kind = "TypeCast"
    THEN fold_type_cast(this, fix_option, unpack_val(this.expr))
    ELSE IF this.kind = "IsNull"
    THEN fold_is_null(this, fix_option, unpack_val(this.expr))
    ELSE IF this.kind = "Unary"
    THEN fold_unary(this, fix_option, unpack_val(this.expr))
    ELSE [res |-> Ok(<<>>), fix |-> fix_option, fixes |-> 0, expr |-> this]

\* ScalarExpression::simplify; returns [res, expr, fixes]
without_fix(r) == [res |-> r.res, expr |-> r.expr, fixes |-> r.fixes]
simplify(this) == without_fix(_simplify(this, None))

(***************************************************************************)
(* The range builder.  convert_binary folds operands through unpack_val,   *)
(* so it returns [res, expr]: Ok(Option<ConstantBinary>) or Panic, and the *)
(* node as the call leaves it.                                             *)
(***************************************************************************)
new_binary_unflipped(col_id, op, col, val, is_flip) ==
    IF ~col.id.some THEN Panic
    ELSE IF col.id.val # col_id THEN Ok(None)
    ELSE IF op = "Gt" THEN Ok(Some(Scope(Excluded(val), Unbounded)))
    ELSE IF op = "Lt" THEN Ok(Some(Scope(Unbounded, Excluded(val))))
    ELSE IF op = "GtEq" THEN Ok(Some(Scope(Included(val), Unbounded)))
    ELSE IF op = "LtEq" THEN Ok(Some(Scope(Unbounded, Included(val))))
    ELSE IF op \in {"Eq", "Spaceship"} THEN Ok(Some(Eq(val)))
    ELSE IF op = "NotEq" THEN Ok(Some(NotEq(val)))
    ELSE Ok(None)

new_binary_any_column(col_id, op, col, val, is_flip) ==
    IF ~col.id.some THEN Panic
    ELSE LET o == IF is_flip THEN comparison_flip(op) ELSE op
         IN  IF o = "Gt" THEN Ok(Some(Scope(Excluded(val), Unbounded)))
             ELSE IF o = "Lt" THEN Ok(Some(Scope(Unbounded, Excluded(val))))
             ELSE IF o = "GtEq" THEN Ok(Some(Scope(Included(val), Unbounded)))
             ELSE IF o = "LtEq" THEN Ok(Some(Scope(Unbounded, Included(val))))
             ELSE IF o \in {"Eq", "Spaceship"} THEN Ok(Some(Eq(val)))
             ELSE IF o = "NotEq" THEN Ok(Some(NotEq(val)))
             ELSE Ok(None)

new_binary(col_id, op, col, val, is_flip) ==
    IF ~col.id.some THEN Panic
    ELSE IF col.id.val # col_id THEN Ok(None)
    ELSE LET o == IF is_flip THEN comparison_flip(op) ELSE op
         IN  IF o = "Gt" THEN Ok(Some(Scope(Excluded(val), Unbounded)))
             ELSE IF o = "Lt" THEN Ok(Some(Scope(Unbounded, Excluded(val))))
             ELSE IF o = "GtEq" THEN Ok(Some(Scope(Included(val), Unbounded)))
             ELSE IF o = "LtEq" THEN Ok(Some(Scope(Unbounded, Included(val))))
             ELSE IF o \in {"Eq", "Spaceship"} THEN Ok(Some(Eq(val)))
             ELSE IF o = "NotEq" THEN Ok(Some(NotEq(val)))
             ELSE Ok(None)

combine_nested(left, right, op) ==
    IF (left.kind = "And" /\ right.kind = "And") \/ (left.kind = "Or" /\ right.kind = "Or")
    THEN Ok(Some(And(<<left, right>>)))
    ELSE IF left.kind = "And" /\ right.kind = "Or"
    THEN Ok(Some(Or(<<right, left>>)))
    ELSE IF left.kind = "Or" /\ right.kind = "And"
    THEN Ok(Some(Or(<<left, right>>)))
    ELSE IF left.kind = "And" THEN Ok(Some(And(Append(left.binaries, right))))
    ELSE IF right.kind = "And" THEN Ok(Some(And(Append(right.binaries, left))))
    ELSE IF left.kind = "Or" THEN Ok(Some(Or(Append(left.binaries, right))))
    ELSE IF right.kind = "Or" THEN Ok(Some(Or(Append(right.binaries, left))))
    ELSE IF op = "And" THEN Ok(Some(And(<<left, right>>)))
    ELSE IF op = "Or" THEN Ok(Some(Or(<<left, right>>)))
    ELSE IF op = "Xor" THEN Panic
    ELSE Ok(None)

combine_wrapped(left, right, op) ==
    IF (left.kind = "And" /\ right.kind = "And") \/ (left.kind = "Or" /\ right.kind = "Or")
    THEN Ok(Some(And(left.binaries \o right.binaries)))
    ELSE IF left.kind = "And" /\ right.kind = "Or"
    THEN Ok(Some(Or(right.binaries \o left.binaries)))
    ELSE IF left.kind = "Or" /\ right.kind = "And"
    THEN Ok(Some(Or(left.binaries \o right.binaries)))
    ELSE IF left.kind = "And" THEN Ok(Some(And(Append(left.binaries, right))))
    ELSE IF right.kind = "And" THEN Ok(Some(And(Append(right.binaries, left))))
    ELSE IF left.kind = "Or" THEN Ok(Some(Or(Append(left.binaries, right))))
    ELSE IF right.kind = "Or" THEN Ok(Some(Or(Append(right.binaries, left))))
    ELSE IF op = "And" THEN Ok(Some(And(<<And(<<left, right>>)>>)))
    ELSE IF op = "Or" THEN Ok(Some(Or(<<Or(<<left, right>>)>>)))
    ELSE IF op = "Xor" THEN Panic
    ELSE Ok(None)

combine_by_op(left, right, op) ==
    IF (left.kind = "And" /\ right.kind = "And") \/ (left.kind = "Or" /\ right.kind = "Or")
    THEN IF op = "Or" THEN Ok(Some(Or(left.binaries \o right.binaries)))
         ELSE Ok(Some(And(left.binaries \o right.binaries)))
    ELSE IF left.kind = "And" /\ right.kind = "Or"
    THEN Ok(Some(Or(right.binaries \o left.binaries)))
    ELSE IF left.kind = "Or" /\ right.kind = "And"
    THEN Ok(Some(Or(left.binaries \o right.binaries)))
    ELSE IF left.kind = "And" THEN Ok(Some(And(Append(left.binaries, right))))
    ELSE IF right.kind = "And" THEN Ok(Some(And(Append(right.binaries, left))))
    ELSE IF left.kind = "Or" THEN Ok(Some(Or(Append(left.binaries, right))))
    ELSE IF right.kind = "Or" THEN Ok(Some(Or(Append(right.binaries, left))))
    ELSE IF op = "And" THEN Ok(Some(And(<<left, right>>)))
    ELSE IF op = "Or" THEN Ok(Some(Or(<<left, right>>)))
    ELSE IF op = "Xor" THEN Panic
    ELSE Ok(None)

\* the match on two lowered sides
combine(left, right, op) ==
    IF (left.kind = "And" /\ right.kind = "And") \/ (left.kind = "Or" /\ right.kind = "Or")
    THEN Ok(Some(And(left.binaries \o right.binaries)))
    ELSE IF left.kind = "And" /\ right.kind = "Or"
    THEN Ok(Some(Or(right.binaries \o left.binaries)))
    ELSE IF left.kind = "Or" /\ right.kind = "And"
    THEN Ok(Some(Or(left.binaries \o right.binaries)))
    ELSE IF left.kind = "And" THEN Ok(Some(And(Append(left.binaries, right))))
    ELSE IF right.kind = "And" THEN Ok(Some(And(Append(right.binaries, left))))
    ELSE IF left.kind = "Or" THEN Ok(Some(Or(Append(left.binaries, right))))
    ELSE IF right.kind = "Or" THEN Ok(Some(Or(Append(right.binaries, left))))
    ELSE IF op = "And" THEN Ok(Some(And(<<left, right>>)))
    ELSE IF op = "Or" THEN Ok(Some(Or(<<left, right>>)))
    ELSE IF op = "Xor" THEN Panic
    ELSE Ok(None)

RECURSIVE convert_binary(_, _)
convert_binary(this, col_id) ==
    IF this.kind = "Binary"
    THEN LET l == convert_binary(this.left_expr, col_id)
         IN  IF l.res.tag # "Ok"
             THEN [res |-> l.res, expr |-> [this EXCEPT !.left_expr = l.expr]]
             ELSE
             LET r == convert_binary(this.right_expr, col_id)
                 node == [this EXCEPT !.left_expr = l.expr, !.right_expr = r.expr]
             IN  IF r.res.tag # "Ok" THEN [res |-> r.res, expr |-> node]
                 ELSE IF l.res.val.some /\ r.res.val.some
                 THEN [res |-> combine(l.res.val.val, r.res.val.val, this.op),
                       expr |-> node]
                 ELSE IF l.res.val.some THEN [res |-> l.res, expr |-> node]
                 ELSE IF r.res.val.some THEN [res |-> r.res, expr |-> node]
                 ELSE LET col1 == unpack_col(node.left_expr, FALSE)
                          val1 == unpack_val(node.right_expr)
                          node1 == [node EXCEPT !.right_expr = val1.expr]
                      IN  IF col1.some /\ val1.val.some
                          THEN [res |-> new_binary(col_id, this.op, col1.val,
                                                   val1.val.val, FALSE),
                                expr |-> node1]
                          ELSE
                          LET val2 == unpack_val(node1.left_expr)
                              col2 == unpack_col(node1.right_expr, FALSE)
                              node2 == [node1 EXCEPT !.left_expr = val2.expr]
                          IN  IF val2.val.some /\ col2.some
                              THEN [res |-> new_binary(col_id, this.op, col2.val,
                                                       val2.val.val, TRUE),
                                    expr |-> node2]
                              ELSE [res |-> Ok(None), expr |-> node2]
    ELSE IF this.kind \in {"Alias", "TypeCast", "IsNull", "Unary"}
    THEN LET r == convert_binary(this.expr, col_id)
         IN  [res |-> r.res, expr |-> [this EXCEPT !.expr = r.expr]]
    ELSE [res |-> Ok(None), expr |-> this]

(***************************************************************************)
(* The inputs of the normalizers.                                          *)
(***************************************************************************)
DataValues == {Null} \cup {Int32(n) : n \in 0..MaxVal}
Bounds == {Unbounded} \cup {Included(val) : val \in DataValues}
                      \cup {Excluded(val) : val \in DataValues}
Leaves == {Scope(min, max) : min \in Bounds, max \in Bounds}
            \cup {Eq(val) : val \in DataValues}
            \cup {NotEq(val) : val \in DataValues}

\* every Eq value anywhere in a Vec<ConstantBinary>
RECURSIVE eq_values(_)
eq_values(bs) ==
    IF bs = <<>> THEN {}
    ELSE (IF bs[1].kind = "Eq" THEN {bs[1].val}
          ELSE IF bs[1].kind \in {"And", "Or"} THEN eq_values(bs[1].binaries)
          ELSE {}) \cup eq_values(Tail(bs))

NoIter == <<>>
NoResult == [tag |-> "None", val |-> <<>>]
NoRange == [kind |-> "None"]
NoExpr == [kind |-> "None"]

(***************************************************************************)
(* SpecRange: a caller builds a Vec<ConstantBinary> and runs a normalizer  *)
(* on And(vec) or Or(vec).                                                 *)
(***************************************************************************)
InitRange ==
    /\ pc = "build"
    /\ binaries = <<>>
    /\ range = NoRange
    /\ iter = NoIter
    /\ result = NoResult
    /\ source = NoExpr
    /\ scalar = NoExpr
    /\ prev = NoExpr
    /\ applied = 0
    /\ target = 0

\* the And/Or nodes and the leaves of a Vec<ConstantBinary>, nested ones included
RECURSIVE arm_count(_)
arm_count(bs) ==
    IF bs = <<>> THEN 0
    ELSE (IF IsLeaf(bs[1]) THEN 0 ELSE 1 + arm_count(bs[1].binaries))
         + arm_count(Tail(bs))

RECURSIVE leaf_count(_)
leaf_count(bs) ==
    IF bs = <<>> THEN 0
    ELSE (IF IsLeaf(bs[1]) THEN 1 ELSE leaf_count(bs[1].binaries))
         + leaf_count(Tail(bs))

\* every leaf of a Vec<ConstantBinary>, nested ones included
RECURSIVE leaves_of(_)
leaves_of(bs) ==
    IF bs = <<>> THEN {}
    ELSE (IF IsLeaf(bs[1]) THEN {bs[1]} ELSE leaves_of(bs[1].binaries))
         \cup leaves_of(Tail(bs))

\* And/Or nodes are nested by convert_binary alone, around leaves that
\* new_binary made: Eq, NotEq and Scopes with one side Unbounded.
LoweredLeaf(leaf) ==
    leaf.kind = "Scope" => (leaf.min = Unbounded \/ leaf.max = Unbounded)

InBounds(bs) ==
    /\ Len(bs) <= MaxLen
    /\ arm_count(bs) <= MaxArms
    /\ arm_count(bs) > 0 =>
          /\ leaf_count(bs) <= MaxArmLeaves
          /\ \A leaf \in leaves_of(bs) : LoweredLeaf(leaf)

\* vec.push(leaf)
Push ==
    /\ pc = "build"
    /\ Len(binaries) < MaxLen
    /\ \E leaf \in Leaves :
          /\ InBounds(Append(binaries, leaf))
          /\ binaries' = Append(binaries, leaf)
    /\ UNCHANGED <<pc, range, iter, result, tree>>

\* the last k elements become one nested ConstantBinary::And / ::Or
Wrap ==
    /\ pc = "build"
    /\ leaf_count(binaries) <= MaxArmLeaves
    /\ \E k \in 0..Len(binaries), kind \in {"And", "Or"} :
          LET n == Len(binaries) - k
              arm == [kind |-> kind, binaries |-> SubSeq(binaries, n + 1, Len(binaries))]
              next == Append(SubSeq(binaries, 1, n), arm)
          IN  /\ InBounds(next)
              /\ binaries' = next
    /\ UNCHANGED <<pc, range, iter, result, tree>>

\* ConstantBinary::And(vec).scope_aggregation()
AndScopeAggregation ==
    /\ pc = "build"
    /\ \E order \in Orders(eq_values(binaries)) :
          LET r == scope_aggregation(And(binaries), order)
          IN  /\ iter' = order
              /\ range' = r.self
              /\ result' = r.res
    /\ pc' = "and_aggregated"
    /\ UNCHANGED <<binaries, tree>>

\* ConstantBinary::Or(vec).scope_aggregation()
OrScopeAggregation ==
    /\ pc = "build"
    /\ \E order \in Orders(eq_values(binaries)) :
          LET r == scope_aggregation(Or(binaries), order)
          IN  /\ iter' = order
              /\ range' = r.self
              /\ result' = r.res
    /\ pc' = "or_aggregated"
    /\ UNCHANGED <<binaries, tree>>

\* ConstantBinary::Or(vec).rearrange()
OrRearrange ==
    /\ pc = "build"
    /\ result' = rearrange(Or(binaries))
    /\ range' = Or(binaries)
    /\ pc' = "or_rearranged"
    /\ UNCHANGED <<binaries, iter, tree>>

\* the pipeline's second step: rearrange() on what scope_aggregation left
RearrangeAggregated ==
    /\ pc \in {"and_aggregated", "or_aggregated"}
    /\ result.tag = "Ok"
    /\ result' = rearrange(range)
    /\ pc' = IF pc = "and_aggregated" THEN "and_rearranged" ELSE "or_agg_rearranged"
    /\ UNCHANGED <<binaries, range, iter, tree>>

NextRange == RearrangeAggregated \/ Push \/ Wrap \/ AndScopeAggregation \/ OrScopeAggregation \/ OrRearrange

SpecRange == InitRange /\ [][NextRange]_vars

(***************************************************************************)
(* Spec: the optimizer's pipeline on one predicate over the column c1:     *)
(* simplify(), convert_binary(&0), scope_aggregation(), rearrange().       *)
(***************************************************************************)
MaxConst == 2        \* Int32 constants of predicates are 0..MaxConst
MaxNestConst == 1    \* and 1..MaxNestConst under two levels of AND/OR
MaxTuple == 4        \* a tuple holds NULL or -MaxTuple..MaxTuple in c1
MaxNeg == 3          \* unary minuses stacked on a column

col_1 == Column(Some(0), "c1")

Consts == {Constant(Int32(n)) : n \in 0..MaxConst}
Atoms == {ColumnRef(col_1)} \cup Consts
LeafAtoms == Atoms \cup {Constant(Null)}

Arith(ls, rs) ==
    {Binary(op, l, r, "Integer") : op \in ArithmeticOps, l \in ls, r \in rs}
Compare(ls, rs) ==
    {Binary(op, l, r, "Boolean") : op \in ComparisonOps, l \in ls, r \in rs}
Negative(es) == {Unary("Minus", e, "Integer") : e \in es}
Not(es) == {Unary("Not", e, "Boolean") : e \in es}
Aliased(es) == {Alias(e) : e \in es}

\* c1 (+) k, k (+) c1, -c1
ColumnArith ==
    Arith({ColumnRef(col_1)}, Consts) \cup Arith(Consts, {ColumnRef(col_1)})
        \cup Negative({ColumnRef(col_1)})
Terms1 == Atoms \cup Arith(Atoms, Atoms) \cup Negative(Atoms)
Terms2 == Arith(ColumnArith, Consts) \cup Arith(Consts, ColumnArith)

\* -c1, -(-c1), ...: up to MaxNeg unary minuses on c1
RECURSIVE Negated(_, _)
Negated(n, e) == IF n = 0 THEN e ELSE Unary("Minus", Negated(n - 1, e), "Integer")
NegChains == {Negated(n, ColumnRef(col_1)) : n \in 1..MaxNeg}

\* c1 cmp k and k cmp c1, bare or under NOT
Literals ==
    LET leaf == Compare({ColumnRef(col_1)}, Consts) \cup Compare(Consts, {ColumnRef(col_1)})
    IN  leaf \cup Not(leaf)

\* c1 cmp k, and two of them under AND/OR
NestLeaves ==
    Compare({ColumnRef(col_1)}, {Constant(Int32(n)) : n \in 1..MaxNestConst})
NestArms ==
    {Binary(op, l, r, "Boolean") : op \in LogicalOps, l \in NestLeaves, r \in NestLeaves}

\* The predicates the binder hands over are Binary { op, left_expr,
\* right_expr, ty: Boolean } with op, left_expr and right_expr drawn from
\* one of these families.
Shapes ==
    <<[ops |-> ComparisonOps \cup {"Spaceship"}, ls |-> LeafAtoms, rs |-> LeafAtoms],
      [ops |-> ComparisonOps, ls |-> Terms1, rs |-> Terms1],
      [ops |-> ComparisonOps, ls |-> Terms2, rs |-> Consts],
      [ops |-> ComparisonOps, ls |-> Consts, rs |-> Terms2],
      [ops |-> ComparisonOps, ls |-> Aliased(ColumnArith), rs |-> Consts],
      [ops |-> ComparisonOps, ls |-> NegChains, rs |-> Consts \cup NegChains],
      [ops |-> LogicalOps, ls |-> Literals, rs |-> Literals],
      [ops |-> LogicalOps, ls |-> NestArms, rs |-> NestArms \cup NestLeaves],
      [ops |-> LogicalOps, ls |-> NestLeaves, rs |-> NestArms]>>

Tuples ==
    {[c1 |-> val] : val \in {Null} \cup {Int32(n) : n \in (0 - MaxTuple)..MaxTuple}}

Init ==
    /\ pc = "bind"
    /\ source = NoExpr
    /\ scalar = NoExpr
    /\ prev = NoExpr
    /\ applied = 0
    /\ target = 0
    /\ binaries = <<>>
    /\ range = NoRange
    /\ iter = NoIter
    /\ result = NoResult

\* the binder hands over the predicate of a WHERE clause
Bind ==
    /\ pc = "bind"
    /\ \E i \in 1..Len(Shapes) :
          \E op \in Shapes[i].ops, l \in Shapes[i].ls, r \in Shapes[i].rs :
              source' = Binary(op, l, r, "Boolean")
    /\ scalar' = source'
    /\ pc' = "parsed"
    /\ UNCHANGED <<binaries, range, iter, result, prev, applied, target>>

\* expr.simplify()
Simplify ==
    /\ pc = "parsed"
    /\ LET r == simplify(scalar)
       IN  /\ scalar' = r.expr
           /\ result' = r.res
           /\ applied' = r.fixes
    /\ pc' = "simplified"
    /\ UNCHANGED <<binaries, range, iter, source, prev, target>>

\* expr.simplify() on a tree that simplify() returned
SimplifyAgain ==
    /\ pc = "simplified"
    /\ result.tag = "Ok"
    /\ LET r == simplify(scalar)
       IN  /\ scalar' = r.expr
           /\ result' = r.res
           /\ applied' = r.fixes
    /\ prev' = scalar
    /\ pc' = "resimplified"
    /\ UNCHANGED <<binaries, range, iter, source, target>>

\* expr.convert_binary(&target), on the tree as built or as simplify() left it
ConvertBinary ==
    /\ pc \in {"parsed", "simplified"}
    /\ pc = "simplified" => result.tag = "Ok"
    /\ LET r == convert_binary(scalar, target)
       IN  /\ scalar' = r.expr
           /\ result' = r.res
           /\ range' = IF r.res.tag = "Ok" /\ r.res.val.some
                       THEN r.res.val.val ELSE NoRange
    /\ pc' = IF pc = "parsed" THEN "converted_raw" ELSE "converted"
    /\ UNCHANGED <<binaries, iter, source, prev, applied, target>>

\* binary.scope_aggregation() on the Some(binary) of convert_binary
ScopeAggregation ==
    /\ pc \in {"converted", "converted_raw"}
    /\ result.tag = "Ok"
    /\ result.val.some
    /\ \E order \in Orders(eq_values(<<range>>)) :
          LET r == scope_aggregation(range, order)
          IN  /\ iter' = order
              /\ range' = r.self
              /\ result' = r.res
    /\ pc' = IF pc = "converted" THEN "aggregated" ELSE "aggregated_raw"
    /\ UNCHANGED <<binaries, tree>>

\* binary.rearrange()
Rearrange ==
    /\ pc \in {"aggregated", "aggregated_raw"}
    /\ result.tag = "Ok"
    /\ result' = rearrange(range)
    /\ pc' = IF pc = "aggregated" THEN "rearranged" ELSE "rearranged_raw"
    /\ UNCHANGED <<binaries, range, iter, tree>>

Next == Bind \/ Simplify \/ SimplifyAgain \/ ConvertBinary \/ ScopeAggregation \/ Rearrange

Spec == Init /\ [][Next]_vars

(***************************************************************************)
(* SpecColumns: predicates over the columns c1, c2 and c3.  The optimizer  *)
(* lowers the predicate for one target column; the (None, None) arm of     *)
(* convert_binary unpacks the left operand as a column and the right one   *)
(* as a value.                                                             *)
(***************************************************************************)
col_2 == Column(Some(1), "c2")
col_3 == Column(Some(2), "c3")
ColumnIds == {0, 1, 2}
Columns == {ColumnRef(col_1), ColumnRef(col_2), ColumnRef(col_3)}

Sums(ls, rs) ==
    {Binary(op, l, r, "Integer") : op \in {"Plus", "Minus"}, l \in ls, r \in rs}

\* c1, c1 + c2, c1 + 1, (c1 + c2) + c3, -c1, c1 AS alias
ColumnTerms ==
    Columns \cup Sums(Columns, Columns \cup Consts)
        \cup Sums(Sums(Columns, Columns), Columns)
        \cup Negative(Columns) \cup Aliased(Columns)

ColumnLeaves ==
    Compare(Columns, {Constant(Int32(1))}) \cup Compare({Constant(Int32(1))}, Columns)

\* x IS [NOT] NULL over operands that fold and operands that hold a column
NullTests ==
    {IsNull(x, negated) :
        x \in Columns \cup LeafAtoms \cup Arith(Consts, Consts)
                \cup Sums(Columns, Consts) \cup Negative(Columns),
        negated \in BOOLEAN}

ColumnShapes ==
    <<[ops |-> ComparisonOps, ls |-> ColumnTerms, rs |-> Consts],
      [ops |-> ComparisonOps, ls |-> Consts, rs |-> Columns \cup Sums(Columns, Columns)],
      [ops |-> LogicalOps, ls |-> ColumnLeaves, rs |-> ColumnLeaves],
      [ops |-> {"Eq", "NotEq"}, ls |-> Columns \cup Consts, rs |-> NullTests]>>

InitColumns ==
    /\ pc = "bind"
    /\ source = NoExpr
    /\ scalar = NoExpr
    /\ prev = NoExpr
    /\ applied = 0
    /\ target \in ColumnIds
    /\ binaries = <<>>
    /\ range = NoRange
    /\ iter = NoIter
    /\ result = NoResult

BindColumns ==
    /\ pc = "bind"
    /\ \E i \in 1..Len(ColumnShapes) :
          \E op \in ColumnShapes[i].ops, l \in ColumnShapes[i].ls, r \in ColumnShapes[i].rs :
              source' = Binary(op, l, r, "Boolean")
    /\ scalar' = source'
    /\ pc' = "parsed"
    /\ UNCHANGED <<binaries, range, iter, result, prev, applied, target>>

\* left_expr.unpack_col(false)
UnpackCol ==
    /\ pc = "parsed"
    /\ result' = unpack_col(scalar.left_expr, FALSE)
    /\ pc' = "unpacked_col"
    /\ UNCHANGED <<binaries, range, iter, tree>>

\* right_expr.unpack_val()
UnpackVal ==
    /\ pc = "parsed"
    /\ LET r == unpack_val(scalar.right_expr)
       IN  /\ result' = r.val
           /\ scalar' = [scalar EXCEPT !.right_expr = r.expr]
    /\ pc' = "unpacked_val"
    /\ UNCHANGED <<binaries, range, iter, source, prev, applied, target>>

NextColumns == BindColumns \/ Simplify \/ ConvertBinary \/ UnpackCol \/ UnpackVal

SpecColumns == InitColumns /\ [][NextColumns]_vars

(***************************************************************************)
(* What a range means: the Int32 values of the column it admits.           *)
(***************************************************************************)
Probes == {Int32(n) : n \in (0 - 1)..(MaxVal + 1)}

InMin(val, min) ==
    \/ min.b = "Unbounded"
    \/ min.b = "Included" /\ val.v >= min.val.v
    \/ min.b = "Excluded" /\ val.v > min.val.v

InMax(val, max) ==
    \/ max.b = "Unbounded"
    \/ max.b = "Included" /\ val.v <= max.val.v
    \/ max.b = "Excluded" /\ val.v < max.val.v

RECURSIVE Satisfies(_, _)
Satisfies(val, binary) ==
    IF binary.kind = "Eq" THEN val = binary.val
    ELSE IF binary.kind = "NotEq" THEN val # binary.val
    ELSE IF binary.kind = "Scope" THEN InMin(val, binary.min) /\ InMax(val, binary.max)
    ELSE IF binary.kind = "And"
        THEN \A i \in 1..Len(binary.binaries) : Satisfies(val, binary.binaries[i])
    ELSE \E i \in 1..Len(binary.binaries) : Satisfies(val, binary.binaries[i])

SatisfiesSome(val, bs) == \E i \in 1..Len(bs) : Satisfies(val, bs[i])

AllLeaves(bs) == \A i \in 1..Len(bs) : IsLeaf(bs[i])

\* leaves, or And arms that hold leaves (and at least one)
LeavesOrAndArms(bs) ==
    \A i \in 1..Len(bs) :
        \/ IsLeaf(bs[i])
        \/ /\ bs[i].kind = "And"
           /\ bs[i].binaries # <<>>
           /\ AllLeaves(bs[i].binaries)

LeafValues(leaf) ==
    IF leaf.kind = "Scope"
    THEN (IF leaf.min = Unbounded THEN {} ELSE {leaf.min.val})
         \cup (IF leaf.max = Unbounded THEN {} ELSE {leaf.max.val})
    ELSE {leaf.val}

NonNull(bs) == \A leaf \in leaves_of(bs) : \A val \in LeafValues(leaf) : ~is_null(val)

Universal == Scope(Unbounded, Unbounded)

(***************************************************************************)
(* C4: every value that satisfies an element of xs satisfies an element of *)
(* rearrange(Or(xs)), for xs of non-null leaves (or And arms of them)      *)
(* without a universal Scope.                                              *)
(***************************************************************************)
C4_RearrangeCovers ==
    (/\ pc = "or_rearranged"
     /\ LeavesOrAndArms(binaries)
     /\ NonNull(binaries)
     /\ Universal \notin leaves_of(binaries))
    => /\ result.tag = "Ok"
       /\ \A val \in Probes :
            SatisfiesSome(val, binaries) => SatisfiesSome(val, result.val)

(***************************************************************************)
(* C5: no two Scopes of rearrange(Or(xs)) contain a common value, for xs   *)
(* of non-null leaves.                                                     *)
(***************************************************************************)
C5_RearrangeDisjoint ==
    (/\ pc = "or_rearranged"
     /\ AllLeaves(binaries)
     /\ NonNull(binaries))
    => /\ result.tag = "Ok"
       /\ \A i, j \in 1..Len(result.val) :
            (/\ i < j
             /\ result.val[i].kind = "Scope"
             /\ result.val[j].kind = "Scope")
            => ~\E val \in Probes :
                  Satisfies(val, result.val[i]) /\ Satisfies(val, result.val[j])

(***************************************************************************)
(* C6: rearrange(Or(xs)) is in non-decreasing order of lower bound (Eq(v)  *)
(* as Included(v), NotEq(v) as Excluded(v)), for xs of non-null leaves.    *)
(***************************************************************************)
\* the lower bound of an element and its place in the order of lower bounds:
\* Unbounded first, then by value, Included(v) before Excluded(v).
LowerBound(binary) ==
    IF binary.kind = "Scope" THEN binary.min
    ELSE IF binary.kind = "Eq" THEN Included(binary.val)
    ELSE Excluded(binary.val)

MinRank(bound) ==
    IF bound.b = "Unbounded" THEN 0 - 1
    ELSE 2 * (bound.val.v + 1) + (IF bound.b = "Excluded" THEN 1 ELSE 0)

C6_RearrangeSorted ==
    (/\ pc = "or_rearranged"
     /\ AllLeaves(binaries)
     /\ NonNull(binaries))
    => /\ result.tag = "Ok"
       /\ \A i, j \in 1..Len(result.val) :
            i < j =>
              /\ MinRank(LowerBound(result.val[i])) <= MinRank(LowerBound(result.val[j]))
              /\ bound_compared(LowerBound(result.val[i]),
                                LowerBound(result.val[j]), TRUE) \in {"Less", "Equal"}

\* an unsorted input of which rearrange keeps two elements, in the other order
C6_Witness ==
    /\ pc = "or_rearranged"
    /\ AllLeaves(binaries)
    /\ NonNull(binaries)
    /\ Len(binaries) = 2
    /\ result.tag = "Ok"
    /\ Len(result.val) = 2
    /\ MinRank(LowerBound(binaries[1])) > MinRank(LowerBound(binaries[2]))
    /\ result.val[1] = binaries[2]

(***************************************************************************)
(* C7: after scope_aggregation an And of leaves is a non-empty list of Eq  *)
(* in strictly ascending value order, or one Scope, or empty; likewise     *)
(* every And arm of an Or.                                                 *)
(***************************************************************************)
EqList(bs) == bs # <<>> /\ \A i \in 1..Len(bs) : bs[i].kind = "Eq"

\* no element is followed by one that orders at or below it
NotDescending(bs) ==
    \A i, j \in 1..Len(bs) :
        i < j => partial_cmp(bs[i].val, bs[j].val) \notin {"Greater", "Equal"}

\* each element orders strictly below every later one
StrictlyAscending(bs) ==
    \A i, j \in 1..Len(bs) :
        i < j => /\ ~is_null(bs[i].val) /\ ~is_null(bs[j].val)
                 /\ bs[i].val.v < bs[j].val.v

OneScope(bs) == Len(bs) = 1 /\ bs[1].kind = "Scope"

AndArms(bs) == {i \in 1..Len(bs) : bs[i].kind = "And"}

\* C7 as stated, for leaves over any values, NULL included
C7_AndNormalFormAnyValue ==
    /\ (pc = "and_aggregated" /\ AllLeaves(binaries))
       => /\ result.tag = "Ok"
          /\ \/ range.binaries = <<>>
             \/ OneScope(range.binaries)
             \/ EqList(range.binaries) /\ NotDescending(range.binaries)
    /\ (pc = "or_aggregated" /\ LeavesOrAndArms(binaries))
       => /\ result.tag = "Ok"
          /\ \A i \in AndArms(range.binaries) :
               \/ range.binaries[i].binaries = <<>>
               \/ OneScope(range.binaries[i].binaries)
               \/ /\ EqList(range.binaries[i].binaries)
                  /\ NotDescending(range.binaries[i].binaries)

\* C7 amended: the same for leaves over non-null values
C7_AndNormalForm ==
    /\ (pc = "and_aggregated" /\ AllLeaves(binaries) /\ NonNull(binaries))
       => /\ result.tag = "Ok"
          /\ \/ range.binaries = <<>>
             \/ OneScope(range.binaries)
             \/ EqList(range.binaries) /\ StrictlyAscending(range.binaries)
    /\ (pc = "or_aggregated" /\ LeavesOrAndArms(binaries) /\ NonNull(binaries))
       => /\ result.tag = "Ok"
          /\ \A i \in AndArms(range.binaries) :
               \/ range.binaries[i].binaries = <<>>
               \/ OneScope(range.binaries[i].binaries)
               \/ /\ EqList(range.binaries[i].binaries)
                  /\ StrictlyAscending(range.binaries[i].binaries)

\* an And arm of an Or that held two Eq out of order, now in order
C7_Witness ==
    /\ pc = "or_aggregated"
    /\ NonNull(binaries)
    /\ Len(binaries) = 1
    /\ binaries[1] = And(<<Eq(Int32(1)), Eq(Int32(0))>>)
    /\ range = Or(<<And(<<Eq(Int32(0)), Eq(Int32(1))>>)>>)

(***************************************************************************)
(* C9: with E the Eq values and N the NotEq values of xs, if E \ N is not  *)
(* empty then scope_aggregation leaves exactly Eq(v) for v in E \ N,       *)
(* ascending and without duplicates, whatever Scopes xs holds.             *)
(***************************************************************************)
EqVals(bs) == {bs[i].val : i \in {k \in 1..Len(bs) : bs[k].kind = "Eq"}}
NotEqVals(bs) == {bs[i].val : i \in {k \in 1..Len(bs) : bs[k].kind = "NotEq"}}
ScopesOf(bs) == {bs[i] : i \in {k \in 1..Len(bs) : bs[k].kind = "Scope"}}

ExactlyEqOf(bs, vals) ==
    /\ EqList(bs)
    /\ Len(bs) = Cardinality(vals)
    /\ {bs[i].val : i \in 1..Len(bs)} = vals

\* C9 as stated, for leaves over any values, NULL included
C9_EqDominanceAnyValue ==
    (/\ pc = "and_aggregated"
     /\ AllLeaves(binaries)
     /\ EqVals(binaries) \ NotEqVals(binaries) # {})
    => /\ result.tag = "Ok"
       /\ ExactlyEqOf(range.binaries, EqVals(binaries) \ NotEqVals(binaries))
       /\ NotDescending(range.binaries)

\* C9 amended: the same for leaves over non-null values
C9_EqDominance ==
    (/\ pc = "and_aggregated"
     /\ AllLeaves(binaries)
     /\ NonNull(binaries)
     /\ EqVals(binaries) \ NotEqVals(binaries) # {})
    => /\ result.tag = "Ok"
       /\ ExactlyEqOf(range.binaries, EqVals(binaries) \ NotEqVals(binaries))
       /\ StrictlyAscending(range.binaries)

\* a Scope that excludes the surviving Eq value, an Eq that a NotEq removes
C9_Witness ==
    /\ pc = "and_aggregated"
    /\ binaries = <<Scope(Excluded(Int32(0)), Unbounded), Eq(Int32(1)), Eq(Int32(0))>>
       \/ binaries = <<NotEq(Int32(1)), Eq(Int32(1)), Eq(Int32(0))>>
    /\ range.binaries # <<>>

(***************************************************************************)
(* C10: when no Eq survives the NotEqs, scope_aggregation leaves nothing   *)
(* if no Scope of xs has a bounded side, and otherwise one Scope: the      *)
(* greatest min and the least max of the Scopes of xs, admitting a value   *)
(* exactly when every Scope of xs admits it (non-null values).             *)
(***************************************************************************)
\* the place of an upper bound: by value, Excluded(v) before Included(v),
\* Unbounded last.
MaxRank(bound) ==
    IF bound.b = "Unbounded" THEN 2 * (MaxVal + 3)
    ELSE 2 * (bound.val.v + 1) - (IF bound.b = "Excluded" THEN 1 ELSE 0)

IsIntersection(scope, scopes) ==
    /\ scope.kind = "Scope"
    /\ \A s \in scopes : MinRank(s.min) <= MinRank(scope.min)
    /\ \E s \in scopes : s.min = scope.min
    /\ \A s \in scopes : MaxRank(scope.max) <= MaxRank(s.max)
    /\ \E s \in scopes : s.max = scope.max
    /\ \A val \in Probes :
          Satisfies(val, scope) <=> \A s \in scopes : Satisfies(val, s)

C10_ScopeIntersection ==
    (/\ pc = "and_aggregated"
     /\ AllLeaves(binaries)
     /\ NonNull(binaries)
     /\ EqVals(binaries) \subseteq NotEqVals(binaries))
    => /\ result.tag = "Ok"
       /\ IF ScopesOf(binaries) \subseteq {Universal}
          THEN range.binaries = <<>>
          ELSE /\ Len(range.binaries) = 1
               /\ IsIntersection(range.binaries[1], ScopesOf(binaries))

\* two Scopes, each tighter on one side: the result is neither of them
C10_Witness ==
    /\ pc = "and_aggregated"
    /\ AllLeaves(binaries)
    /\ NonNull(binaries)
    /\ EqVals(binaries) \subseteq NotEqVals(binaries)
    /\ Len(range.binaries) = 1
    /\ range.binaries[1].min.b = "Excluded"
    /\ range.binaries[1].max.b = "Excluded"
    /\ range.binaries[1] \notin ScopesOf(binaries)

(***************************************************************************)
(* C1: range soundness of the pipeline.  Whenever the predicate evaluates  *)
(* to true on a tuple holding v in c1, v satisfies an element of the list  *)
(* that simplify, convert_binary, scope_aggregation and rearrange produce; *)
(* an empty list is no constraint.                                         *)
(***************************************************************************)
IsTrue(value) == value.tag = "Ok" /\ value.val = Boolean(TRUE)

C1_RangeSoundness ==
    (pc = "rearranged" /\ result.tag = "Ok") =>
        \A tuple \in Tuples :
            (~is_null(tuple.c1) /\ IsTrue(eval_column(source, tuple))) =>
                (result.val = <<>> \/ SatisfiesSome(tuple.c1, result.val))

(***************************************************************************)
(* C2: semantic preservation of simplify.  On every tuple the simplified   *)
(* tree evaluates to the value of the original tree, and fails exactly     *)
(* when the original fails.                                                *)
(***************************************************************************)
SameValue(a, b) == a.tag = b.tag /\ (a.tag = "Ok" => a.val = b.val)

C2_SimplifyPreserves ==
    (pc = "simplified" /\ result.tag = "Ok") =>
        \A tuple \in Tuples :
            SameValue(eval_column(scalar, tuple), eval_column(source, tuple))

(***************************************************************************)
(* C3: idempotence of simplify.  A second simplify leaves the tree that    *)
(* the first one returned structurally unchanged.                          *)
(***************************************************************************)
C3_SimplifyIdempotent == pc = "resimplified" => scalar = prev

(***************************************************************************)
(* C8: leaf lowering.  convert_binary maps c1 > v to Scope{Excluded(v),    *)
(* Unbounded}, c1 < v to Scope{Unbounded, Excluded(v)}, c1 >= v to         *)
(* Scope{Included(v), Unbounded}, c1 <= v to Scope{Unbounded,              *)
(* Included(v)}, c1 = v and c1 <=> v to Eq(v), c1 <> v to NotEq(v); with   *)
(* the column on the right it answers as for the mirrored comparison.      *)
(***************************************************************************)
Mirrored(op) ==
    CASE op = "Gt" -> "Lt"
      [] op = "Lt" -> "Gt"
      [] op = "GtEq" -> "LtEq"
      [] op = "LtEq" -> "GtEq"
      [] OTHER -> op

LeafFor(op, val) ==
    CASE op = "Gt" -> Scope(Excluded(val), Unbounded)
      [] op = "Lt" -> Scope(Unbounded, Excluded(val))
      [] op = "GtEq" -> Scope(Included(val), Unbounded)
      [] op = "LtEq" -> Scope(Unbounded, Included(val))
      [] op \in {"Eq", "Spaceship"} -> Eq(val)
      [] op = "NotEq" -> NotEq(val)

Returned(binary) == result.tag = "Ok" /\ result.val.some /\ result.val.val = binary

C8_LeafLowering ==
    pc = "converted_raw" =>
        \A op \in ComparisonOps \cup {"Spaceship"} :
            \A val \in {Null} \cup {Int32(n) : n \in 0..MaxConst} :
                /\ source = Binary(op, ColumnRef(col_1), Constant(val), "Boolean")
                      => Returned(LeafFor(op, val))
                /\ source = Binary(op, Constant(val), ColumnRef(col_1), "Boolean")
                      => Returned(LeafFor(Mirrored(op), val))

C8_Witness ==
    /\ pc = "converted_raw"
    /\ source = Binary("Lt", Constant(Int32(1)), ColumnRef(col_1), "Boolean")
    /\ Returned(Scope(Excluded(Int32(1)), Unbounded))

(***************************************************************************)
(* C11: Eq preservation in rearrange.  For xs of non-null leaves, every    *)
(* Eq(v) of xs whose value lies in no Scope of xs is an element of         *)
(* rearrange(Or(xs)).                                                      *)
(***************************************************************************)
InNoScope(val, bs) ==
    \A j \in 1..Len(bs) : bs[j].kind = "Scope" => ~Satisfies(val, bs[j])

C11_RearrangeKeepsEq ==
    (/\ pc = "or_rearranged"
     /\ AllLeaves(binaries)
     /\ NonNull(binaries))
    => /\ result.tag = "Ok"
       /\ \A i \in 1..Len(binaries) :
            (binaries[i].kind = "Eq" /\ InNoScope(binaries[i].val, binaries))
            => \E k \in 1..Len(result.val) : result.val[k] = binaries[i]

(***************************************************************************)
(* C14: no abort on malformed range input.  However And and Or are nested, *)
(* rearrange and scope_aggregation return a result or TypeError and never  *)
(* panic, and an Or whose And arm holds an And or Or gets TypeError.       *)
(***************************************************************************)
HasNestedAndArm(bs) ==
    \E i \in 1..Len(bs) :
        /\ bs[i].kind = "And"
        /\ \E j \in 1..Len(bs[i].binaries) : ~IsLeaf(bs[i].binaries[j])

C14_NoAbort ==
    /\ pc \in {"or_rearranged", "and_aggregated", "or_aggregated",
               "and_rearranged", "or_agg_rearranged"}
          => result.tag \in {"Ok", "Err"}
    /\ (pc = "or_rearranged" /\ HasNestedAndArm(binaries)) => result.tag = "Err"

(***************************************************************************)
(* C12: subtraction absorption is exact.  simplify then convert_binary on  *)
(* (c1 - k) cmp r gives the range of c1 cmp (r + k), on (k - c1) cmp r the *)
(* range of c1 cmp' (k - r) with cmp' mirrored, also under an Alias; a     *)
(* value is in the range exactly when the comparison is true for it.       *)
(***************************************************************************)
Minus(l, r) == Binary("Minus", l, r, "Integer")

Exact ==
    \A tuple \in Tuples :
        ~is_null(tuple.c1) =>
            (Satisfies(tuple.c1, result.val.val) <=> IsTrue(eval_column(source, tuple)))

C12_SubtractionAbsorbed ==
    pc = "converted" =>
        \A op \in ComparisonOps : \A k, r \in 0..MaxConst :
            LET col_left == Minus(ColumnRef(col_1), Constant(Int32(k)))
                col_right == Minus(Constant(Int32(k)), ColumnRef(col_1))
            IN  /\ source \in {Binary(op, col_left, Constant(Int32(r)), "Boolean"),
                               Binary(op, Alias(col_left), Constant(Int32(r)), "Boolean")}
                      => Returned(LeafFor(op, Int32(r + k))) /\ Exact
                /\ source \in {Binary(op, col_right, Constant(Int32(r)), "Boolean"),
                               Binary(op, Alias(col_right), Constant(Int32(r)), "Boolean")}
                      => Returned(LeafFor(Mirrored(op), Int32(k - r))) /\ Exact

\* (1 - c1) >= 2 under an Alias, as build_test_expr makes it
C12_Witness ==
    /\ pc = "converted"
    /\ source = Binary("GtEq", Alias(Minus(Constant(Int32(1)), ColumnRef(col_1))),
                       Constant(Int32(2)), "Boolean")
    /\ Returned(Scope(Unbounded, Included(Int32(0 - 1))))

(***************************************************************************)
(* C13: unary minus absorption.  simplify rewrites (-c1) cmp r into        *)
(* c1 cmp' k with cmp' the mirrored comparison and k the folded Constant   *)
(* -r, convert_binary then gives the range of c1 cmp' (-r), and a chain of *)
(* n unary minuses is absorbed in n steps.                                 *)
(***************************************************************************)
RECURSIVE MirroredTimes(_, _)
MirroredTimes(n, op) == IF n = 0 THEN op ELSE MirroredTimes(n - 1, Mirrored(op))

RECURSIVE NegatedTimes(_, _)
NegatedTimes(n, r) == IF n = 0 THEN r ELSE NegatedTimes(n - 1, 0 - r)

C13_UnaryMinusAbsorbed ==
    \A op \in ComparisonOps : \A r \in 0..MaxConst : \A n \in 1..MaxNeg :
        source = Binary(op, Negated(n, ColumnRef(col_1)), Constant(Int32(r)), "Boolean")
        => /\ pc = "simplified"
                => /\ result.tag = "Ok"
                   /\ scalar = Binary(MirroredTimes(n, op), ColumnRef(col_1),
                                      Constant(Int32(NegatedTimes(n, r))), "Boolean")
                   /\ applied = n
           /\ pc = "converted"
                => Returned(LeafFor(MirroredTimes(n, op), Int32(NegatedTimes(n, r))))

\* -c1 > 2 is lowered as c1 < -2
C13_Witness ==
    /\ pc = "converted"
    /\ source = Binary("Gt", Negated(1, ColumnRef(col_1)), Constant(Int32(2)), "Boolean")
    /\ Returned(Scope(Unbounded, Excluded(Int32(0 - 2))))

(***************************************************************************)
(* C15: termination of simplify.  Each re-entry of fix_expr after          *)
(* fix_unary works on a strictly smaller left operand, and simplify        *)
(* returns after a number of replacements bounded by the size of the tree, *)
(* also with a unary child on both sides of a Binary node.                 *)
(***************************************************************************)
RECURSIVE NodeCount(_)
NodeCount(e) ==
    IF e.kind = "Binary" THEN 1 + NodeCount(e.left_expr) + NodeCount(e.right_expr)
    ELSE IF e.kind \in {"Alias", "TypeCast", "IsNull", "Unary"} THEN 1 + NodeCount(e.expr)
    ELSE 1

\* the left operand fix_expr re-enters with, after the Unary `left` published
ReEntered(left, right, op) ==
    fix_unary(_simplify(left, None).fix.val, _simplify(left, None).expr, right, op).left_expr

PublishesUnary(e) ==
    /\ _simplify(e, None).fix.some
    /\ _simplify(e, None).fix.val.kind = "Unary"

C15_SimplifyTerminates ==
    /\ (pc = "parsed" /\ PublishesUnary(source.left_expr))
          => NodeCount(ReEntered(source.left_expr, source.right_expr, source.op))
                < NodeCount(source.left_expr)
    /\ pc = "simplified" => applied <= 2 * NodeCount(source)

\* -(-c1) > -(-c1): two re-entries for the left side, four for the right
C15_Witness ==
    /\ pc = "simplified"
    /\ source = Binary("Gt", Negated(2, ColumnRef(col_1)), Negated(2, ColumnRef(col_1)),
                       "Boolean")
    /\ result.tag = "Ok"
    /\ applied = 6

(***************************************************************************)
(* C16: every range convert_binary returns is a leaf, an And of leaves, or *)
(* an Or none of whose elements is an Or; the range scope_aggregation      *)
(* leaves behind has the same shape.                                       *)
(***************************************************************************)
LoweredShape(binary) ==
    \/ IsLeaf(binary)
    \/ binary.kind = "And" /\ AllLeaves(binary.binaries)
    \/ /\ binary.kind = "Or"
       /\ \A i \in 1..Len(binary.binaries) : binary.binaries[i].kind # "Or"

C16_LoweredShape ==
    /\ (pc \in {"converted", "converted_raw"} /\ result.tag = "Ok" /\ result.val.some)
          => LoweredShape(result.val.val)
    /\ (pc = "aggregated" /\ result.tag = "Ok") => LoweredShape(range)

\* (c1 > 1 OR c1 < 1) AND (c1 >= 1 AND c1 <= 1): an Or side meets an And side
C16_Witness ==
    /\ pc = "aggregated"
    /\ result.tag = "Ok"
    /\ source.left_expr.kind = "Binary" /\ source.left_expr.op = "Or"
    /\ source.right_expr.kind = "Binary" /\ source.right_expr.op = "And"
    /\ range.kind = "Or"
    /\ Len(range.binaries) = 4

(***************************************************************************)
(* C17: convert_binary(e, id) is restricted to the target column: every    *)
(* leaf it returns comes from a comparison in e that holds a column with   *)
(* that id, a comparison on another column contributes nothing, and the    *)
(* result is Ok(None) when e does not mention the target column.           *)
(***************************************************************************)
RECURSIVE Mentions(_, _)
Mentions(e, id) ==
    IF e.kind = "ColumnRef" THEN e.col.id = Some(id)
    ELSE IF e.kind = "Binary" THEN Mentions(e.left_expr, id) \/ Mentions(e.right_expr, id)
    ELSE IF e.kind \in {"Alias", "TypeCast", "IsNull", "Unary"} THEN Mentions(e.expr, id)
    ELSE FALSE

RECURSIVE Subnodes(_)
Subnodes(e) ==
    {e} \cup (IF e.kind = "Binary" THEN Subnodes(e.left_expr) \cup Subnodes(e.right_expr)
              ELSE IF e.kind \in {"Alias", "TypeCast", "IsNull", "Unary"}
              THEN Subnodes(e.expr)
              ELSE {})

ComparisonsOn(e, id) ==
    {n \in Subnodes(e) : n.kind = "Binary" /\ n.op \in ComparisonOps /\ Mentions(n, id)}

ComesFrom(leaf, n) ==
    \E val \in LeafValues(leaf) :
        leaf \in {LeafFor(n.op, val), LeafFor(Mirrored(n.op), val)}

C17_TargetColumnOnly ==
    pc = "converted_raw" =>
        /\ result.tag = "Ok"
        /\ ~Mentions(source, target) => result = Ok(None)
        /\ result.val.some =>
              \A leaf \in leaves_of(<<result.val.val>>) :
                  \E n \in ComparisonsOn(source, target) : ComesFrom(leaf, n)
        /\ (source.op \in LogicalOps /\ ~Mentions(source.left_expr, target))
              => result = convert_binary(source.right_expr, target).res
        /\ (source.op \in LogicalOps /\ ~Mentions(source.right_expr, target))
              => result = convert_binary(source.left_expr, target).res

\* c2 > 1 OR c1 < 1 lowered for c1
C17_Witness ==
    /\ pc = "converted_raw"
    /\ target = 0
    /\ source = Binary("Or",
                       Binary("Gt", ColumnRef(col_2), Constant(Int32(1)), "Boolean"),
                       Binary("Lt", ColumnRef(col_1), Constant(Int32(1)), "Boolean"),
                       "Boolean")
    /\ Returned(Scope(Unbounded, Excluded(Int32(1))))

(***************************************************************************)
(* C18: convert_binary emits a leaf for a comparison only when one operand *)
(* is a ColumnRef with the target id, possibly under Alias, and the other  *)
(* operand folds to a value; a column still wrapped in arithmetic or in a  *)
(* unary operator (c1 + 1 >= 2, -c1 > 5 before simplify) yields no range.  *)
(***************************************************************************)
RECURSIVE BareColumn(_, _)
BareColumn(e, id) ==
    IF e.kind = "ColumnRef" THEN e.col.id = Some(id)
    ELSE IF e.kind = "Alias" THEN BareColumn(e.expr, id)
    ELSE FALSE

Folds(e) == unpack_val(e).val.some

C18_BareColumnOnly ==
    (/\ pc = "converted_raw"
     /\ source.op \in ComparisonOps
     /\ result.tag = "Ok"
     /\ result.val.some)
        => \/ BareColumn(source.left_expr, target) /\ Folds(source.right_expr)
           \/ BareColumn(source.right_expr, target) /\ Folds(source.left_expr)

\* c1 + 1 >= 2, lowered as built, comes back as the range of c1 >= 2
C18_WrappedColumnLowered ==
    /\ pc = "converted_raw"
    /\ source = Binary("GtEq",
                       Binary("Plus", ColumnRef(col_1), Constant(Int32(1)), "Integer"),
                       Constant(Int32(2)), "Boolean")
    /\ Returned(Scope(Included(Int32(2)), Unbounded))

\* -c1 > 2, lowered as built, comes back as the range of c1 > 2
C18_NegatedColumnLowered ==
    /\ pc = "converted_raw"
    /\ source = Binary("Gt", Unary("Minus", ColumnRef(col_1), "Integer"),
                       Constant(Int32(2)), "Boolean")
    /\ Returned(Scope(Excluded(Int32(2)), Unbounded))

(***************************************************************************)
(* C19: unpack_col(e, false) returns Some(c) only if c is the only column  *)
(* reference occurring in e, and None for every e that holds two or more   *)
(* column references, such as (c1 + c2) + c3.                              *)
(***************************************************************************)
RECURSIVE RefCount(_)
RefCount(e) ==
    IF e.kind = "ColumnRef" THEN 1
    ELSE IF e.kind = "Binary" THEN RefCount(e.left_expr) + RefCount(e.right_expr)
    ELSE IF e.kind \in {"Alias", "TypeCast", "IsNull", "Unary"} THEN RefCount(e.expr)
    ELSE 0

C19_UniqueColumn ==
    pc = "unpacked_col" =>
        /\ result.some => /\ RefCount(source.left_expr) = 1
                          /\ ColumnRef(result.val) \in Subnodes(source.left_expr)
        /\ RefCount(source.left_expr) >= 2 => result = None

\* (c1 + c2) + c3 unpacks to c3
C19_ThirdColumnUnpacked ==
    /\ pc = "unpacked_col"
    /\ source.left_expr =
          Binary("Plus", Binary("Plus", ColumnRef(col_1), ColumnRef(col_2), "Integer"),
                 ColumnRef(col_3), "Integer")
    /\ result = Some(col_3)

(***************************************************************************)
(* C20: unpack_val(e) returns Some(value) only if e holds no column        *)
(* reference; for IsNull(x) it returns a value only when x itself folds,   *)
(* and None for IsNull over a column reference.                            *)
(***************************************************************************)
C20_GroundOnly ==
    pc = "unpacked_val" =>
        /\ result.some => RefCount(source.right_expr) = 0
        /\ (source.right_expr.kind = "IsNull" /\ result.some)
              => Folds(source.right_expr.expr)
        /\ (source.right_expr.kind = "IsNull"
                /\ source.right_expr.expr.kind = "ColumnRef")
              => result = None

\* c1 IS NULL folds to a Boolean holding no value
C20_NullTestOfColumnFolded ==
    /\ pc = "unpacked_val"
    /\ source.right_expr = IsNull(ColumnRef(col_1), FALSE)
    /\ result = Some(BooleanNone)

(***************************************************************************)
(* C21: only a comparison absorbs a replacement.  Under AND / OR both      *)
(* children of the node keep their meaning through simplify: NOT(a) AND b  *)
(* is not turned into a AND NOT(b).                                        *)
(***************************************************************************)
C21_OnlyComparisonAbsorbs ==
    (pc = "simplified" /\ result.tag = "Ok" /\ source.op \in LogicalOps) =>
        /\ scalar.kind = "Binary"
        /\ \A tuple \in Tuples :
              /\ SameValue(eval_column(scalar.left_expr, tuple),
                           eval_column(source.left_expr, tuple))
              /\ SameValue(eval_column(scalar.right_expr, tuple),
                           eval_column(source.right_expr, tuple))

\* NOT(c1 > 1) AND NOT(c1 < 2) comes back as NOT(NOT(c1 > 1)) AND c1 < 2
C21_NotMovedAcrossAnd ==
    /\ pc = "simplified"
    /\ source = Binary("And",
                       Unary("Not", Binary("Gt", ColumnRef(col_1), Constant(Int32(1)),
                                           "Boolean"), "Boolean"),
                       Unary("Not", Binary("Lt", ColumnRef(col_1), Constant(Int32(2)),
                                           "Boolean"), "Boolean"),
                       "Boolean")
    /\ scalar = Binary("And",
                       Unary("Not",
                             Unary("Not", Binary("Gt", ColumnRef(col_1), Constant(Int32(1)),
                                                 "Boolean"), "Boolean"), "Boolean"),
                       Binary("Lt", ColumnRef(col_1), Constant(Int32(2)), "Boolean"),
                       "Boolean")

(***************************************************************************)
(* C22: when both sides of a Binary lower to a range and one of them is an *)
(* And or an Or, convert_binary combines the two ranges without looking at *)
(* the operator: (And a, And b) and (Or a, Or b) give And(a ++ b),         *)
(* (And a, Or b) gives Or(b ++ a), (Or a, And b) gives Or(a ++ b), a       *)
(* composite with a leaf gives the composite with the leaf appended.       *)
(***************************************************************************)
Composite(binary) == binary.kind \in {"And", "Or"}

Combined(l, r) ==
    CASE l.kind = r.kind /\ Composite(l) -> And(l.binaries \o r.binaries)
      [] l.kind = "And" /\ r.kind = "Or" -> Or(r.binaries \o l.binaries)
      [] l.kind = "Or" /\ r.kind = "And" -> Or(l.binaries \o r.binaries)
      [] Composite(l) /\ IsLeaf(r) -> [l EXCEPT !.binaries = Append(@, r)]
      [] IsLeaf(l) /\ Composite(r) -> [r EXCEPT !.binaries = Append(@, l)]

LoweredSide(e) == convert_binary(e, target).res

BothLowered(l, r) ==
    /\ l.tag = "Ok" /\ l.val.some
    /\ r.tag = "Ok" /\ r.val.some

C22_CombinationIgnoresOp ==
    (/\ pc = "converted_raw"
     /\ BothLowered(LoweredSide(source.left_expr), LoweredSide(source.right_expr))
     /\ \/ Composite(LoweredSide(source.left_expr).val.val)
        \/ Composite(LoweredSide(source.right_expr).val.val))
        => Returned(Combined(LoweredSide(source.left_expr).val.val,
                             LoweredSide(source.right_expr).val.val))

\* (.. OR ..) OR (.. OR ..) is lowered to an And of the four leaves
C22_Witness ==
    /\ pc = "converted_raw"
    /\ source.op = "Or"
    /\ BothLowered(LoweredSide(source.left_expr), LoweredSide(source.right_expr))
    /\ LoweredSide(source.left_expr).val.val.kind = "Or"
    /\ LoweredSide(source.right_expr).val.val.kind = "Or"
    /\ result.tag = "Ok" /\ result.val.some
    /\ result.val.val.kind = "And"
    /\ Len(result.val.val.binaries) = 4

(***************************************************************************)
(* C23: in scope_aggregation on an And of Scopes, a bound that carries a   *)
(* NULL value neither tightens nor loosens the result: the result equals   *)
(* the one for the list with that bound replaced by Unbounded, wherever    *)
(* the Scope stands in the list.                                           *)
(***************************************************************************)
WithoutNull(bound) ==
    IF bound # Unbounded /\ is_null(bound.val) THEN Unbounded ELSE bound

NullBoundsDropped(bs) ==
    [i \in 1..Len(bs) |-> Scope(WithoutNull(bs[i].min), WithoutNull(bs[i].max))]

AllScopes(bs) == \A i \in 1..Len(bs) : bs[i].kind = "Scope"

C23_NullBoundsInert ==
    (pc = "and_aggregated" /\ AllScopes(binaries)) =>
        /\ result.tag = "Ok"
        /\ range = And(_scope_aggregation(NullBoundsDropped(binaries), <<>>).binaries)

\* And([Scope{Included(NULL), Unbounded}, Scope{Included(0), Unbounded}])
\* keeps the NULL bound as its lower bound
C23_NullBoundAdopted ==
    /\ pc = "and_aggregated"
    /\ binaries = <<Scope(Included(Null), Unbounded), Scope(Included(Int32(0)), Unbounded)>>
    /\ range = And(<<Scope(Included(Null), Unbounded)>>)

(***************************************************************************)
(* C24: for each fixed is_min, bound_compared is a total order on bounds   *)
(* over non-null values: antisymmetric and transitive; as a min Unbounded  *)
(* is the least bound and Included(v) < Excluded(v), as a max Unbounded is *)
(* the greatest bound and Excluded(v) < Included(v); bounds on different   *)
(* values order as their values.                                           *)
(***************************************************************************)
BoundsOf(bs) ==
    UNION {{bs[i].min, bs[i].max} : i \in {j \in 1..Len(bs) : bs[j].kind = "Scope"}}

NonNullBoundsOf(bs) ==
    {bound \in BoundsOf(bs) : bound = Unbounded \/ ~is_null(bound.val)}

OnValue(bound) == bound # Unbounded

BoundOrder(a, b, c, is_min) ==
    /\ bound_compared(a, b, is_min) \in {"Less", "Equal", "Greater"}
    /\ bound_compared(a, b, is_min) = reverse(bound_compared(b, a, is_min))
    /\ bound_compared(a, b, is_min) = "Equal" <=> a = b
    /\ (bound_compared(a, b, is_min) = "Less" /\ bound_compared(b, c, is_min) = "Less")
          => bound_compared(a, c, is_min) = "Less"
    /\ (a = Unbounded /\ OnValue(b))
          => bound_compared(a, b, is_min) = (IF is_min THEN "Less" ELSE "Greater")
    /\ (OnValue(a) /\ OnValue(b) /\ a.val = b.val /\ a.b = "Included" /\ b.b = "Excluded")
          => bound_compared(a, b, is_min) = (IF is_min THEN "Less" ELSE "Greater")
    /\ (OnValue(a) /\ OnValue(b) /\ a.val.v < b.val.v)
          => bound_compared(a, b, is_min) = "Less"

C24_BoundOrder ==
    pc = "and_aggregated" =>
        \A a, b, c \in NonNullBoundsOf(binaries) : \A is_min \in BOOLEAN :
            BoundOrder(a, b, c, is_min)

\* And([Scope{Included(0), Excluded(0)}, Scope{Unbounded, Included(1)}]) has
\* been aggregated: Included and Excluded on one value, another value, Unbounded
C24_Witness ==
    /\ pc = "and_aggregated"
    /\ {Unbounded, Included(Int32(0)), Excluded(Int32(0)), Included(Int32(1))}
          \subseteq NonNullBoundsOf(binaries)
    /\ result.tag = "Ok"

(***************************************************************************)
(* C25: for an IsNull node over a ground operand, negated or not, the      *)
(* Boolean constant simplify puts in its place is the value eval_column    *)
(* returns for the node.                                                   *)
(***************************************************************************)
C25_NullTestFolding ==
    (/\ pc = "simplified"
     /\ result.tag = "Ok"
     /\ source.right_expr.kind = "IsNull"
     /\ Folds(source.right_expr.expr))
        => /\ scalar.right_expr.kind = "Constant"
           /\ \A tuple \in Tuples :
                 eval_column(source.right_expr, tuple) = Ok(scalar.right_expr.value)

\* 0 IS NOT NULL is folded to false
C25_NegatedFoldedAsPlain ==
    /\ pc = "simplified"
    /\ source.right_expr = IsNull(Constant(Int32(0)), TRUE)
    /\ scalar.right_expr = Constant(Boolean(FALSE))

(***************************************************************************)
(* C26: simplify does not grow the tree: the tree after simplify has at    *)
(* most as many nodes as the tree before, and holds the same column        *)
(* references, each as often as before.                                    *)
(***************************************************************************)
RECURSIVE RefsTo(_, _)
RefsTo(e, col) ==
    IF e.kind = "ColumnRef" THEN (IF e.col = col THEN 1 ELSE 0)
    ELSE IF e.kind = "Binary" THEN RefsTo(e.left_expr, col) + RefsTo(e.right_expr, col)
    ELSE IF e.kind \in {"Alias", "TypeCast", "IsNull", "Unary"} THEN RefsTo(e.expr, col)
    ELSE 0

FailsAt(bs, k, order) ==
    /\ scope_aggregation(bs[k], order).res = Err
    /\ \A i \in 1..(k - 1) : scope_aggregation(bs[i], order).res.tag = "Ok"

C27_EarlierArmAggregated ==
    /\ pc = "or_aggregated"
    /\ result = Err
    /\ range.binaries[1] # binaries[1]

(***************************************************************************)
(* C28: scope_aggregation on an And of leaves over non-null values gives   *)
(* the same list for every permutation of the leaves, and applied to its   *)
(* own result it changes nothing.                                          *)
(***************************************************************************)
Permuted(bs) ==
    {[i \in 1..Len(bs) |-> bs[p[i]]] : p \in Orders(1..Len(bs))}

\* the lists _scope_aggregation can leave for bs, over the orders in which
\* the eq_set may be walked
Aggregated(bs) ==
    {_scope_aggregation(bs, order).binaries : order \in Orders(eq_set_of(bs))}

C28_OrderIndependentIdempotent ==
    (pc = "and_aggregated" /\ AllLeaves(binaries) /\ NonNull(binaries)) =>
        /\ result.tag = "Ok"
        /\ \A xs \in Permuted(binaries) : Aggregated(xs) = {range.binaries}
        /\ Aggregated(range.binaries) = {range.binaries}

\* three leaves in an order that is not the order the loop visits them in,
\* aggregated to one Scope with bounds from two of them
C28_Witness ==
    /\ pc = "and_aggregated"
    /\ binaries = <<Scope(Unbounded, Included(Int32(1))), NotEq(Int32(1)),
                    Scope(Excluded(Int32(0)), Unbounded)>>
    /\ range = And(<<Scope(Excluded(Int32(0)), Included(Int32(1)))>>)

(***************************************************************************)
(* C29: rearrange is idempotent on its own output: for an Or of leaves     *)
(* over non-null values, rearrange on Or(result) returns the result again; *)
(* in particular no Eq or NotEq of the result lies inside a Scope of the   *)
(* result.                                                                 *)
(***************************************************************************)
InsideSomeScope(val, bs) ==
    \E i \in 1..Len(bs) : bs[i].kind = "Scope" /\ Satisfies(val, bs[i])

C29_RearrangeIdempotent ==
    (pc = "or_rearranged" /\ AllLeaves(binaries) /\ NonNull(binaries)
        /\ result.tag = "Ok") =>
        /\ rearrange(Or(result.val)) = result
        /\ \A i \in 1..Len(result.val) :
              result.val[i].kind \in {"Eq", "NotEq"}
                  => ~InsideSomeScope(result.val[i].val, result.val)

(***************************************************************************)
(* C30: the lowering pipeline never fails on its own output.  For a        *)
(* predicate without XOR whose columns all carry an id, convert_binary     *)
(* returns Ok, scope_aggregation on the range it returns is Ok, and the    *)
(* rearrange that follows is Ok and reaches no unreachable!() branch.      *)
(***************************************************************************)
C30_PipelineNeverFails ==
    pc \in {"converted", "converted_raw", "aggregated", "aggregated_raw",
            "rearranged", "rearranged_raw"}
        => result.tag = "Ok"

\* an AND of two ORs, lowered as built, aggregated and rearranged
C30_Witness ==
    /\ pc = "rearranged_raw"
    /\ source.op = "And"
    /\ source.left_expr.kind = "Binary" /\ source.left_expr.op = "Or"
    /\ source.right_expr.kind = "Binary" /\ source.right_expr.op = "Or"
    /\ range.kind = "And"
    /\ Len(range.binaries) = 1
    /\ result = Ok(range.binaries)

====
